---- MODULE Spec2Model ----
(***************************************************************************)
(* Verification model of the energy-allocator repository:                  *)
(*   scr/spot_module.py       SpotMedianCalculator (price cache, medians)  *)
(*   scr/energy_allocator.py  EnergyAllocator (allocation waterfall)       *)
(*   scr/auxiliary_module.py  AuxiliaryFunc / AuxiliaryVar (CSV parsing)   *)
(*                                                                         *)
(* Numbers that are floats in the program are exact rationals [n, d] here  *)
(* (d > 0, not normalised); they are compared by cross multiplication.     *)
(***************************************************************************)
EXTENDS Integers, Sequences, FiniteSets, TLC

VARIABLES
    cache_file,        \* the persisted price cache: [exists, rows]
    clock,             \* datetime.now().year
    config_length,     \* the analysis_length argument of the constructor
    analysis_length,   \* SpotMedianCalculator.analysis_length (after the cap)
    last,              \* observation of the most recent spot_get_price call
    production_path,   \* EnergyAllocator: the production CSV (its value column)
    company_path,      \* the company consumption CSV (its value column)
    price_profile,     \* what spot_processor.spot_remove_years() returns
    app_data_dict,     \* the unit specs: apartment, allocation, profile, amount
    calculation_method,\* "by_apartment" or "by_type"
    apartments_df,     \* self.apartments_df
    profile_df,        \* self.profile_df
    frame,             \* the dataframe of the most recent pipeline call
    stage,             \* the pipeline method called most recently
    totals,            \* what the most recent call returned, if it was a summary
    retrievals,        \* the spot_get_price calls made by the most recent call
    column,            \* profile_csv_to_dataframe: column 0 of the CSV file
    matched_format,    \* the date format it detected
    profile_result,    \* what it returned
    median_df,         \* what the most recent spot_calculate_median returned
    align_df1,         \* remove_feb_29_if_mismatch: its first argument
    align_df2,         \* its second argument
    aligned,           \* what it returned
    resample_df,       \* resample_quarter_to_hour: its argument
    resampled          \* what it returned

cacheVars == <<cache_file, clock, config_length, analysis_length, last>>

allocInputs ==
    <<production_path, company_path, price_profile, app_data_dict,
      calculation_method>>

summaryVars == <<totals, retrievals>>

allocVars == <<allocInputs, apartments_df, profile_df, frame, stage, summaryVars>>

parseVars == <<column, matched_format, profile_result>>

medianVars == <<median_df>>

alignVars == <<align_df1, align_df2, aligned>>

resampleVars == <<resample_df, resampled>>

auxVars == <<alignVars, resampleVars>>

vars == <<cacheVars, allocVars, parseVars, medianVars, auxVars>>

(***************************************************************************)
(* Bounds                                                                  *)
(***************************************************************************)
FirstClockYear == 2024
MaxClockSteps == 1
MaxAnalysisLength == 14

(***************************************************************************)
(* Rationals                                                               *)
(***************************************************************************)
RECURSIVE Gcd(_, _)
Gcd(a, b) == IF b = 0 THEN a ELSE Gcd(b, a % b)
Abs(i) == IF i < 0 THEN -i ELSE i

\* the rational n / d (d > 0) in lowest terms
R(n, d) ==
    LET g == Gcd(Abs(n), d)
    IN  [n |-> n \div g, d |-> d \div g]
RInt(i) == [n |-> i, d |-> 1]
RZero == [n |-> 0, d |-> 1]
REq(a, b) == a = b
RLeq(a, b) ==
    LET g == Gcd(a.d, b.d)
    IN  a.n * (b.d \div g) <= b.n * (a.d \div g)
RLt(a, b) == RLeq(a, b) /\ ~REq(a, b)
RAdd(a, b) ==
    LET g == Gcd(a.d, b.d)
    IN  R(a.n * (b.d \div g) + b.n * (a.d \div g), (a.d \div g) * b.d)
RNeg(a) == [n |-> -a.n, d |-> a.d]
RSub(a, b) == RAdd(a, RNeg(b))
RMul(a, b) ==
    LET g1 == Gcd(Abs(a.n), b.d)
        g2 == Gcd(Abs(b.n), a.d)
    IN  R((a.n \div g1) * (b.n \div g2), (a.d \div g2) * (b.d \div g1))
RDivInt(a, k) == RMul(a, R(1, k))

\* clip(lower=0)
RClip0(a) == IF RLt(a, RZero) THEN RZero ELSE a

\* a value rounded to 3 decimals, ties to the even digit (DataFrame.round)
Round3(a) ==
    LET scaled == a.n * 1000
        fl == scaled \div a.d
        twice == 2 * (scaled - fl * a.d)
    IN  IF twice < a.d THEN R(fl, 1000)
        ELSE IF twice > a.d THEN R(fl + 1, 1000)
        ELSE IF fl % 2 = 0 THEN R(fl, 1000)
        ELSE R(fl + 1, 1000)

(***************************************************************************)
(* Frames: [cols, data], the column names in order and the column values   *)
(***************************************************************************)
EmptyFrame == [cols |-> <<>>, data |-> <<>>]

HasCol(df, name) == \E i \in DOMAIN df.cols : df.cols[i] = name

\* dataframe[name] = series
SetCol(df, name, series) ==
    [cols |-> IF HasCol(df, name) THEN df.cols ELSE Append(df.cols, name),
     data |-> (name :> series) @@ df.data]

\* dataframe.columns.get_loc(name), 0-based
GetLoc(df, name) == (CHOOSE i \in DOMAIN df.cols : df.cols[i] = name) - 1

\* the column appended after the last one, whatever loc is
InsertCol_append(df, loc, name, series) ==
    [cols |-> Append(df.cols, name), data |-> (name :> series) @@ df.data]

\* dataframe.insert(loc, name, series), loc 0-based
InsertCol(df, loc, name, series) ==
    [cols |-> SubSeq(df.cols, 1, loc) \o <<name>>
                  \o SubSeq(df.cols, loc + 1, Len(df.cols)),
     data |-> (name :> series) @@ df.data]

NRows(df) == IF df.cols = <<>> THEN 0 ELSE Len(df.data[df.cols[1]])

\* DataFrame.empty / Series.empty
IsEmpty(df) == df.cols = <<>> \/ NRows(df) = 0

\* what a summary returns: kind "Series" with its index and values, or kind
\* "DataFrame" for the pd.DataFrame() of its exception handler
NoTotals == [kind |-> "none", index |-> <<>>, values |-> <<>>]

IdleAlloc ==
    /\ production_path = <<>>
    /\ company_path = <<>>
    /\ price_profile = EmptyFrame
    /\ app_data_dict = <<>>
    /\ calculation_method = "by_apartment"
    /\ apartments_df = <<>>
    /\ profile_df = EmptyFrame
    /\ frame = EmptyFrame
    /\ stage = "none"
    /\ totals = NoTotals
    /\ retrievals = <<>>

IdleParse ==
    /\ column = <<>>
    /\ matched_format = "unset"
    /\ profile_result = "unset"

\* no median table has been asked for; ok = FALSE after a call stands for the
\* class pd.DataFrame that the failing call returns
NoTable ==
    [called |-> FALSE, ok |-> FALSE, index |-> <<>>, years |-> <<>>,
     data |-> <<>>, median |-> <<>>, median_fees |-> <<>>]

IdleMedian == median_df = NoTable

\* a frame as the helpers of AuxiliaryFunc see it: ok = FALSE stands for the
\* class pd.DataFrame that a failed load hands on; days are the calendar days
\* of the DateTime index in order, each with the number of rows it has
NoSeries == [ok |-> TRUE, days |-> <<>>]

NoAligned == [called |-> FALSE, df1 |-> NoSeries, df2 |-> NoSeries, warning |-> FALSE]

IdleAlign ==
    /\ align_df1 = NoSeries
    /\ align_df2 = NoSeries
    /\ aligned = NoAligned

\* a frame as resample_quarter_to_hour sees it: index holds the timestamps in
\* minutes, values the column
NoSamples == [ok |-> TRUE, index |-> <<>>, values |-> <<>>]

NoResampled == [called |-> FALSE, ok |-> FALSE, index |-> <<>>, values |-> <<>>]

IdleResample ==
    /\ resample_df = NoSamples
    /\ resampled = NoResampled

IdleAux == IdleAlign /\ IdleResample

(***************************************************************************)
(* The external price service (sahkotin.fi), one row per calendar month    *)
(* (the first hour of the month) plus the first hour of February 29 in     *)
(* leap years.  A row is [year, month, day, value].                        *)
(***************************************************************************)
AnalysisLengthCap == 13
MonthsPerYear == 12

IsLeapYear(y) == (y % 4 = 0) /\ ((y % 100 # 0) \/ (y % 400 = 0))

\* entry['value'] as the service reports it, in its native unit
NativeValue(y, m, d) == ((y * 7 + m * 3 + d) % 5) * 20

\* {'date': entry['date'], 'value': entry['value'] * 0.1}
ApiEntry(y, m, d) ==
    [year |-> y, month |-> m, day |-> d, value |-> R(NativeValue(y, m, d), 10)]

\* the service holds prices from this month of its first year on; its first
\* year is the earliest one that an analysis of full length asks for
ServiceFirstMonth == 7
ServiceFirstYear == FirstClockYear - AnalysisLengthCap

ServiceHolds(y, m) ==
    y > ServiceFirstYear \/ (y = ServiceFirstYear /\ m >= ServiceFirstMonth)

ApiYear(y) ==
    LET jan == <<ApiEntry(y, 1, 1), ApiEntry(y, 2, 1)>>
        feb29 == IF IsLeapYear(y) THEN <<ApiEntry(y, 2, 29)>> ELSE <<>>
        rest == [i \in 1..(MonthsPerYear - 2) |-> ApiEntry(y, i + 2, 1)]
    IN  SelectSeq(jan \o feb29 \o rest, LAMBDA r : ServiceHolds(r.year, r.month))

RECURSIVE from_api_to_dataframe(_, _)
\* the response to a request for the years a..b, in chronological order
from_api_to_dataframe(a, b) ==
    IF a > b THEN <<>> ELSE ApiYear(a) \o from_api_to_dataframe(a + 1, b)

(***************************************************************************)
(* spot_get_price                                                          *)
(***************************************************************************)
NoFile == [exists |-> FALSE, rows |-> <<>>]
DataFrameClass == "pd.DataFrame"

YearsOf(df) == {df[i].year : i \in DOMAIN df}
YearMax(df) == CHOOSE y \in YearsOf(df) : \A z \in YearsOf(df) : z <= y
YearMin(df) == CHOOSE y \in YearsOf(df) : \A z \in YearsOf(df) : y <= z

EndYear(now) == now - 1
StartYear(now, len) == EndYear(now) - (len - 1)

\* which branch of update_cache's if / elif / else is taken
RepairCase_leading_first(dataframe, start_year, end_year) ==
    IF YearMin(dataframe) > start_year THEN "leading"
    ELSE IF YearMax(dataframe) < end_year THEN "trailing"
    ELSE "complete"

RepairCase_no_leading(dataframe, start_year, end_year) ==
    IF YearMax(dataframe) < end_year THEN "trailing" ELSE "complete"

RepairCase(dataframe, start_year, end_year) ==
    IF YearMax(dataframe) < end_year THEN "trailing"
    ELSE IF YearMin(dataframe) > start_year THEN "leading"
    ELSE "complete"

\* start = f"{max+1}-01-01T00:00:00.000Z", end = f"{end_year}-12-31T23:00:00Z"
TrailingRequest_from_max(dataframe, end_year) ==
    <<YearMax(dataframe), end_year>>

TrailingRequest(dataframe, end_year) == <<YearMax(dataframe) + 1, end_year>>

\* start = f"{start_year}-01-01T00:00:00.000Z", end = f"{min-1}-12-31T23:00:00Z"
LeadingRequest_through_min(dataframe, start_year) ==
    <<start_year, YearMin(dataframe)>>

LeadingRequest(dataframe, start_year) == <<start_year, YearMin(dataframe) - 1>>

\* pd.concat([new_df, dataframe], ignore_index=False)
ConcatLeading_after(new_df, dataframe) == dataframe \o new_df

ConcatLeading(new_df, dataframe) == new_df \o dataframe

\* dataframe.to_csv(filepath, mode='a', header=...)
AppendTrailing_overwrite(rows, new_df) == new_df

AppendTrailing(rows, new_df) == rows \o new_df

\* the file after a request that raised: the exception leaves update_cache
\* and spot_get_price before their to_csv lines
FileAfterFailure_rewritten(file) ==
    [exists |-> TRUE, rows |-> SubSeq(file.rows, 1, Len(file.rows) - 1)]

FileAfterFailure(file) == file

\* update_cache: [raised, file, df, fetches]
update_cache(file, dataframe, now, len, service_ok) ==
    LET end_year == EndYear(now)
        start_year == StartYear(now, len)
        case == RepairCase(dataframe, start_year, end_year)
    IN  IF case = "trailing"
        THEN LET req == TrailingRequest(dataframe, end_year)
                 new_df == from_api_to_dataframe(req[1], req[2])
                 appended == [exists |-> TRUE, rows |-> AppendTrailing(file.rows, new_df)]
             IN  IF service_ok
                 THEN [raised |-> FALSE, file |-> appended,
                       df |-> appended.rows, fetches |-> <<req>>]
                 ELSE [raised |-> TRUE, file |-> FileAfterFailure(file),
                       df |-> <<>>, fetches |-> <<req>>]
        ELSE IF case = "leading"
        THEN LET req == LeadingRequest(dataframe, start_year)
                 new_df == from_api_to_dataframe(req[1], req[2])
                 combined == [exists |-> TRUE,
                              rows |-> ConcatLeading(new_df, dataframe)]
             IN  IF service_ok
                 THEN [raised |-> FALSE, file |-> combined,
                       df |-> combined.rows, fetches |-> <<req>>]
                 ELSE [raised |-> TRUE, file |-> FileAfterFailure(file),
                       df |-> <<>>, fetches |-> <<req>>]
        ELSE [raised |-> FALSE, file |-> file, df |-> dataframe,
              fetches |-> <<>>]

\* dataframe[start:end]
SliceYears(df, start_year, end_year) ==
    SelectSeq(df, LAMBDA r : start_year <= r.year /\ r.year <= end_year)

\* "Removes first year if not full year (< 12 months)"
RemovePartialFirstYear_never(df) == df

RemovePartialFirstYear(df) ==
    IF df = <<>> THEN df
    ELSE LET first_year == YearMin(df)
             months_in_first_year ==
                 {df[i].month : i \in {j \in DOMAIN df : df[j].year = first_year}}
         IN  IF Cardinality(months_in_first_year) # MonthsPerYear
             THEN SelectSeq(df, LAMBDA r : r.year # first_year)
             ELSE df

\* one call: [file, ret, ok, fetches]
spot_get_price(file, now, len, service_ok) ==
    LET end_year == EndYear(now)
        start_year == StartYear(now, len)
    IN  IF file.exists
        THEN LET u == update_cache(file, file.rows, now, len, service_ok)
             IN  IF u.raised
                 THEN [file |-> u.file, ret |-> DataFrameClass, ok |-> FALSE,
                       fetches |-> u.fetches]
                 ELSE [file |-> u.file,
                       ret |-> RemovePartialFirstYear(
                                   SliceYears(u.df, start_year, end_year)),
                       ok |-> TRUE, fetches |-> u.fetches]
        ELSE LET req == <<start_year, end_year>>
                 dataframe == from_api_to_dataframe(req[1], req[2])
             IN  IF service_ok
                 THEN [file |-> [exists |-> TRUE, rows |-> dataframe],
                       ret |-> RemovePartialFirstYear(dataframe),
                       ok |-> TRUE, fetches |-> <<req>>]
                 ELSE [file |-> FileAfterFailure(file), ret |-> DataFrameClass,
                       ok |-> FALSE, fetches |-> <<req>>]

\* SpotMedianCalculator.__init__: "Analysis length limit"
CapLength(len) == IF len > AnalysisLengthCap THEN AnalysisLengthCap ELSE len

NoCall ==
    [called |-> FALSE, now |-> 0, arg |-> 0, len |-> 0, ok |-> FALSE,
     fetches |-> <<>>, before |-> NoFile, ret |-> DataFrameClass,
     repeat |-> FALSE]

InitCache ==
    /\ cache_file = NoFile
    /\ clock = FirstClockYear
    /\ config_length \in 1..MaxAnalysisLength
    /\ analysis_length = CapLength(config_length)
    /\ last = NoCall
    /\ IdleAlloc
    /\ IdleParse
    /\ IdleMedian
    /\ IdleAux

\* a caller invokes spot_get_price(); the service answers or fails
SpotGetPrice ==
    \E service_ok \in BOOLEAN :
        LET r == spot_get_price(cache_file, clock, analysis_length, service_ok)
        IN  /\ cache_file' = r.file
            /\ last' = [called |-> TRUE, now |-> clock, arg |-> config_length,
                        len |-> analysis_length,
                        ok |-> r.ok, fetches |-> r.fetches,
                        before |-> cache_file, ret |-> r.ret,
                        repeat |-> /\ last.called
                                   /\ last.ok
                                   /\ last.now = clock
                                   /\ last.len = analysis_length]
            /\ UNCHANGED <<clock, config_length, analysis_length, allocVars, parseVars, medianVars, auxVars>>

\* a new SpotMedianCalculator(analysis_length = len) is constructed
Construct ==
    \E len \in 1..MaxAnalysisLength :
        /\ len # config_length
        /\ config_length' = len
        /\ analysis_length' = CapLength(len)
        /\ UNCHANGED <<cache_file, clock, last, allocVars, parseVars, medianVars, auxVars>>

\* the system clock passes into the next calendar year
NewYear ==
    /\ clock < FirstClockYear + MaxClockSteps
    /\ clock' = clock + 1
    /\ UNCHANGED <<cache_file, config_length, analysis_length, last, allocVars, parseVars, medianVars, auxVars>>

NextCache == SpotGetPrice \/ Construct \/ NewYear

SpecCache == InitCache /\ [][NextCache]_vars

(***************************************************************************)
(* Claims about the Price Cache Manager (checked under SpecCache)          *)
(***************************************************************************)
LastEnd == last.now - 1
LastStart ==
    LastEnd - ((IF last.arg < AnalysisLengthCap THEN last.arg
                ELSE AnalysisLengthCap) - 1)
BeforeYears == YearsOf(last.before.rows)
BeforeMax == YearMax(last.before.rows)
BeforeMin == YearMin(last.before.rows)
HadTrailingGap == last.before.exists /\ BeforeMax < LastEnd
HadLeadingGap == last.before.exists /\ BeforeMin > LastStart
RangeYears(req) == req[1]..req[2]

\* C1: after a successful spot_get_price call, an immediately following call
\* with the same clock and the same analysis length issues no fetch, whatever
\* the cache was before the first call.
C1_SecondCallNoFetch ==
    (last.called /\ last.repeat) => last.fetches = <<>>

\* C2 as stated: with both a leading and a trailing range missing, one call
\* issues exactly one fetch, for the leading range start_year..min-1, and
\* leaves the trailing range unrepaired.
C2_LeadingTakesPrecedence ==
    (last.called /\ HadLeadingGap /\ HadTrailingGap) =>
        /\ last.fetches = << <<LastStart, BeforeMin - 1>> >>
        /\ last.ok => YearMax(cache_file.rows) < LastEnd

\* C2 amended: with both a leading and a trailing range missing, one call
\* issues exactly one fetch, for the trailing range max+1..end_year (the
\* trailing-gap check takes precedence), and leaves the leading range
\* unrepaired.
C2_TrailingTakesPrecedence ==
    (last.called /\ HadLeadingGap /\ HadTrailingGap) =>
        /\ last.fetches = << <<BeforeMax + 1, LastEnd>> >>
        /\ last.ok => /\ YearMin(cache_file.rows) > LastStart
                      /\ YearMax(cache_file.rows) = LastEnd

C2_Witness ==
    last.called /\ last.ok /\ HadLeadingGap /\ HadTrailingGap

RowBefore(r, s) ==
    \/ r.year < s.year
    \/ r.year = s.year /\ r.month < s.month
    \/ r.year = s.year /\ r.month = s.month /\ r.day < s.day
IsChronological(df) ==
    \A i \in 1..(Len(df) - 1) : RowBefore(df[i], df[i + 1])

\* C4: from no cache, from a cache missing only a trailing range or from one
\* missing only a leading range, one successful call leaves the cache
\* covering every year of [start_year, end_year]; in the leading case the
\* fetched rows come before the existing rows and the file stays in
\* chronological order.
C4_OneCallCompletes ==
    (last.called /\ last.ok /\ ~(HadLeadingGap /\ HadTrailingGap)) =>
        /\ cache_file.exists
        /\ \A y \in LastStart..LastEnd : y \in YearsOf(cache_file.rows)
        /\ (HadLeadingGap /\ ~HadTrailingGap) =>
               /\ Len(cache_file.rows) > Len(last.before.rows)
               /\ LET k == Len(cache_file.rows) - Len(last.before.rows)
                  IN  /\ SubSeq(cache_file.rows, k + 1, Len(cache_file.rows))
                            = last.before.rows
                      /\ \A i \in 1..k : cache_file.rows[i].year < BeforeMin
               /\ IsChronological(cache_file.rows)

C4_Witness ==
    /\ last.called /\ last.ok
    /\ HadLeadingGap /\ ~HadTrailingGap
    /\ Len(cache_file.rows) > Len(last.before.rows)

(***************************************************************************)
(* EnergyAllocator: the allocation waterfall.  Every series has one value  *)
(* per row of the price profile (the CSV series are aligned and complete). *)
(***************************************************************************)
MaxSpecs == 2
MaxAmount == 2

spot_price_median == "Spot median [c/kWh]"
spot_price_median_fees == "Spot median w/ fees [c/kWh]"
production_column == "PV production [kWh]"
company_column == "Company consumption [kWh]"
company_after_pv == "Company after PV [kWh]"
value_after_subtraction == "Company value of coverage [c]"
pv_after_company == "PV post company [kWh]"
pv_over_production == "PV over production [kWh]"
value_to_grid == "Electricity value to grid [c]"

\* temp_apartment_consumption.replace("APP", apartment) and its siblings
ApartmentConsumption(apartment) == apartment \o " consumption [kWh]"
AppAfterPvName(apartment) == apartment \o " after PV [kWh]"
ValueOfCoverageName(apartment) == apartment \o " value of coverage [c]"

\* the inputs of a run
ProductionFiles ==
    { <<RInt(10), RInt(10)>>, <<RInt(10), RInt(2)>>,
      <<R(125, 10000), RZero>> }
CompanyFiles == { <<RInt(4), RInt(4)>>, <<RZero, R(125, 10000)>> }
PriceFrame(median, fees) ==
    [cols |-> <<spot_price_median, spot_price_median_fees>>,
     data |-> (spot_price_median :> median) @@ (spot_price_median_fees :> fees)]
PriceProfiles ==
    { PriceFrame(<<RInt(4), RInt(4)>>, <<RInt(5), RInt(5)>>),
      PriceFrame(<<R(15, 10), R(5, 1000)>>,
                 <<R(75, 40), R(25, 4000)>>) }
TypeNames == <<"A", "B", "C", "D">>
UnitFiles ==
    << <<RInt(3), RZero>>, <<RInt(1), R(5, 1000)>>,
       <<RInt(2), RInt(2)>>, <<RZero, RInt(7)>> >>
Allocations == { R(1, 2), R(1, 5) }
SpecAt(k) ==
    { [apartment |-> TypeNames[k], allocation |-> w, profile |-> UnitFiles[k],
       amount |-> n] : w \in Allocations, n \in 1..MaxAmount }
AppDataDicts ==
    UNION { { d \in [1..len -> UNION {SpecAt(k) : k \in 1..len}] :
                \A k \in 1..len : d[k] \in SpecAt(k) } : len \in 1..MaxSpecs }

\* spot_remove_years handing on the price profile whatever the retrieval did
spot_remove_years_cached(price) == [ok |-> TRUE, frame |-> price_profile]

\* spot_remove_years() as the pipeline sees it: price is what spot_get_price
\* returned inside; a successful retrieval hands on the two median columns,
\* whose values are those of the run's price profile
spot_remove_years(price) ==
    [ok |-> price.ok, frame |-> IF price.ok THEN price_profile ELSE EmptyFrame]

\* the price service answers
Answered == [ok |-> TRUE]

\* pd.DataFrame() with one column and no rows
NoRows(name) == [cols |-> <<name>>, data |-> (name :> <<>>)]

\* add_production: the price profile with the production column; without a
\* price profile the reindex raises and the handler returns pd.DataFrame()
add_production(price) ==
    IF ~spot_remove_years(price).ok THEN EmptyFrame
    ELSE SetCol(spot_remove_years(price).frame, production_column, production_path)

\* add_company_consumption; reindexed to the empty frame of a failed
\* add_production the company column is left without rows
add_company_consumption(price) ==
    IF add_production(price) = EmptyFrame THEN NoRows(company_column)
    ELSE SetCol(add_production(price), company_column, company_path)

\* "Safety check" of calculate_company
RequiredColumns == <<company_column, production_column, spot_price_median>>

MissesColumn(dataframe, columns) ==
    \E i \in DOMAIN columns : ~HasCol(dataframe, columns[i])

\* unmet_consumption.clip(lower=0)
CompanyAfter_unclipped(consumption, production) == RSub(consumption, production)

CompanyAfter(consumption, production) == RClip0(RSub(consumption, production))

\* price_with_fees * (consumption - after)
CoverageValue(price_fees, consumption, after) ==
    RMul(price_fees, RSub(consumption, after))

\* excess_pv.clip(lower=0)
PvLeftover(production, consumption) == RClip0(RSub(production, consumption))

\* the body of calculate_company on the frame of add_company_consumption
CompanyBalance(dataframe) ==
    LET after == [i \in 1..NRows(dataframe) |->
                     CompanyAfter(dataframe.data[company_column][i],
                                  dataframe.data[production_column][i])]
        df1 == SetCol(dataframe, company_after_pv, after)
        value == [i \in 1..Len(after) |->
                     CoverageValue(df1.data[spot_price_median_fees][i],
                                   df1.data[company_column][i],
                                   df1.data[company_after_pv][i])]
        df2 == SetCol(df1, value_after_subtraction, value)
        leftover == [i \in 1..NRows(dataframe) |->
                        PvLeftover(df2.data[production_column][i],
                                   df2.data[company_column][i])]
    IN  SetCol(df2, pv_after_company, leftover)

\* calculate_company (the frame is bound through a singleton set so that it
\* is computed once)
calculate_company(price) ==
    CHOOSE r \in {IF MissesColumn(dataframe, RequiredColumns) THEN EmptyFrame
                  ELSE CompanyBalance(dataframe) :
                      dataframe \in {add_company_consumption(price)}} :
        TRUE

RECURSIVE RepeatRows(_)
\* apartments_df.loc[apartments_df.index.repeat(apartments_df["amount"])]
RepeatRows(specs) ==
    IF specs = <<>> THEN <<>>
    ELSE [i \in 1..Head(specs).amount |-> Head(specs)] \o RepeatRows(Tail(specs))

\* the position of row i within its own type (a counter restarting per type)
IndexInType(rows, i) ==
    Cardinality({j \in 1..i : rows[j].apartment = rows[i].apartment})

\* f"{apt}{i}" with i from global_index = range(1, len + 1)
UnitName_per_type(rows, i) ==
    rows[i].apartment \o ToString(IndexInType(rows, i))

UnitName(rows, i) == rows[i].apartment \o ToString(i)

\* apartments_df["allocation"] / apartments_df["amount"]
NormalizedAllocation(row) == RDivInt(row.allocation, row.amount)

\* self.apartments_df as add_apartment_consumption builds it
ResolveApartments(specs, method) ==
    IF method = "by_type"
    THEN LET rows == RepeatRows(specs)
         IN  [i \in 1..Len(rows) |->
                 [apartment |-> UnitName(rows, i),
                  allocation |-> NormalizedAllocation(rows[i]),
                  profile |-> rows[i].profile,
                  amount |-> rows[i].amount]]
    ELSE specs

\* one pass of the loop of add_apartment_consumption: [dataframe, profile_df]
LoadProfile(pair, unit) ==
    LET name == ApartmentConsumption(unit.apartment)
        prof == SetCol(pair.profile_df, name, unit.profile)
    IN  [dataframe |-> SetCol(pair.dataframe, name, prof.data[name]),
         profile_df |-> prof]

RECURSIVE LoadProfiles(_, _, _)
\* the loop of add_apartment_consumption
LoadProfiles(pair, units, k) ==
    IF k > Len(units) THEN pair
    ELSE CHOOSE r \in {LoadProfiles(LoadProfile(p, units[k]), units, k + 1) :
                           p \in {pair}} : TRUE

\* add_apartment_consumption: [dataframe, profile_df, apartments_df]
add_apartment_consumption(price) ==
    CHOOSE r \in
        {[dataframe |-> done.dataframe, profile_df |-> done.profile_df,
          apartments_df |-> ResolveApartments(app_data_dict,
                                              calculation_method)] :
             done \in {LoadProfiles(
                           [dataframe |-> calculate_company(price),
                            profile_df |-> EmptyFrame],
                           ResolveApartments(app_data_dict, calculation_method),
                           1)}} : TRUE

\* consumption - (pv_leftover * allocation), not clipped
AppAfterPv_clipped(consumption, leftover, allocation) ==
    RClip0(RSub(consumption, RMul(leftover, allocation)))

AppAfterPv(consumption, leftover, allocation) ==
    RSub(consumption, RMul(leftover, allocation))

\* one pass of the loop of calculate_apartment
InsertUnit(dataframe, unit) ==
    LET apartment_column == ApartmentConsumption(unit.apartment)
        after == [i \in 1..NRows(dataframe) |->
                     AppAfterPv(dataframe.data[apartment_column][i],
                                dataframe.data[pv_after_company][i],
                                unit.allocation)]
        value == [i \in 1..NRows(dataframe) |->
                     CoverageValue(dataframe.data[spot_price_median_fees][i],
                                   dataframe.data[apartment_column][i],
                                   after[i])]
        insert_loc == GetLoc(dataframe, apartment_column) + 1
        df1 == InsertCol(dataframe, insert_loc,
                         AppAfterPvName(unit.apartment), after)
    IN  InsertCol(df1, insert_loc + 1,
                  ValueOfCoverageName(unit.apartment), value)

RECURSIVE InsertUnitColumns(_, _, _)
\* the loop of calculate_apartment
InsertUnitColumns(dataframe, units, k) ==
    IF k > Len(units) THEN dataframe
    ELSE CHOOSE r \in {InsertUnitColumns(InsertUnit(d, units[k]), units, k + 1) :
                           d \in {dataframe}} : TRUE

\* calculate_apartment: [dataframe, profile_df, apartments_df]; a column
\* that the loop reads and does not find raises KeyError
calculate_apartment(price) ==
    CHOOSE r \in {[dataframe |->
                       IF MissesColumn(a.dataframe,
                                       <<pv_after_company, spot_price_median_fees>>)
                       THEN EmptyFrame
                       ELSE InsertUnitColumns(a.dataframe, a.apartments_df, 1),
                   profile_df |-> a.profile_df,
                   apartments_df |-> a.apartments_df] :
                      a \in {add_apartment_consumption(price)}} : TRUE

RECURSIVE SumCols(_, _, _)
\* profile_df.sum(axis=1) at row i
SumCols(df, k, i) ==
    IF k > Len(df.cols) THEN RZero
    ELSE RAdd(df.data[df.cols[k]][i], SumCols(df, k + 1, i))

\* (production - (company + profiles)).clip(lower=0)
OverProduction(production, company, profiles) ==
    RClip0(RSub(production, RAdd(company, profiles)))

\* the price column the surplus is valued at
GridPriceColumn_fees == spot_price_median_fees

GridPriceColumn == spot_price_median

\* dataframe.round(3)
RoundFrame(df) ==
    [cols |-> df.cols,
     data |-> [c \in DOMAIN df.data |->
                 [i \in 1..Len(df.data[c]) |-> Round3(df.data[c][i])]]]

\* the surplus column added to the frame of calculate_apartment
WithOverProduction(dataframe, profiles) ==
    SetCol(dataframe, pv_over_production,
           [i \in 1..NRows(dataframe) |->
               OverProduction(dataframe.data[production_column][i],
                              dataframe.data[company_column][i],
                              SumCols(profiles, 1, i))])

\* the grid value column
WithValueToGrid(dataframe) ==
    SetCol(dataframe, value_to_grid,
           [i \in 1..NRows(dataframe) |->
               RMul(dataframe.data[pv_over_production][i],
                    dataframe.data[GridPriceColumn][i])])

\* calculate_pv_over_production: [dataframe, profile_df, apartments_df]
calculate_pv_over_production(price) ==
    CHOOSE r \in
        {[dataframe |->
              IF MissesColumn(a.dataframe,
                              <<production_column, company_column, spot_price_median>>)
              THEN EmptyFrame
              ELSE RoundFrame(WithValueToGrid(
                       WithOverProduction(a.dataframe, a.profile_df))),
          profile_df |-> a.profile_df,
          apartments_df |-> a.apartments_df] :
             a \in {calculate_apartment(price)}} : TRUE

IdleCache ==
    /\ cache_file = NoFile
    /\ clock = FirstClockYear
    /\ config_length = 1
    /\ analysis_length = 1
    /\ last = NoCall

\* EnergyAllocator.__init__ with the inputs of one run
InitAlloc ==
    /\ IdleCache
    /\ production_path \in ProductionFiles
    /\ company_path \in CompanyFiles
    /\ price_profile \in PriceProfiles
    /\ app_data_dict \in AppDataDicts
    /\ calculation_method \in {"by_apartment", "by_type"}
    /\ apartments_df = <<>>
    /\ profile_df = EmptyFrame
    /\ frame = EmptyFrame
    /\ stage = "none"
    /\ totals = NoTotals
    /\ retrievals = <<>>
    /\ IdleParse
    /\ IdleMedian
    /\ IdleAux

AddProduction ==
    /\ frame' = add_production(Answered)
    /\ stage' = "add_production"
    /\ UNCHANGED <<cacheVars, parseVars, medianVars, auxVars, allocInputs, apartments_df, profile_df, summaryVars>>

AddCompanyConsumption ==
    /\ frame' = add_company_consumption(Answered)
    /\ stage' = "add_company_consumption"
    /\ UNCHANGED <<cacheVars, parseVars, medianVars, auxVars, allocInputs, apartments_df, profile_df, summaryVars>>

CalculateCompany ==
    /\ frame' = calculate_company(Answered)
    /\ stage' = "calculate_company"
    /\ UNCHANGED <<cacheVars, parseVars, medianVars, auxVars, allocInputs, apartments_df, profile_df, summaryVars>>

AddApartmentConsumption ==
    \E r \in {add_apartment_consumption(Answered)} :
        /\ frame' = r.dataframe
        /\ profile_df' = r.profile_df
        /\ apartments_df' = r.apartments_df
        /\ stage' = "add_apartment_consumption"
        /\ UNCHANGED <<cacheVars, parseVars, medianVars, auxVars, allocInputs, summaryVars>>

CalculateApartment ==
    \E r \in {calculate_apartment(Answered)} :
        /\ frame' = r.dataframe
        /\ profile_df' = r.profile_df
        /\ apartments_df' = r.apartments_df
        /\ stage' = "calculate_apartment"
        /\ UNCHANGED <<cacheVars, parseVars, medianVars, auxVars, allocInputs, summaryVars>>

CalculatePvOverProduction ==
    \E r \in {calculate_pv_over_production(Answered)} :
        /\ frame' = r.dataframe
        /\ profile_df' = r.profile_df
        /\ apartments_df' = r.apartments_df
        /\ stage' = "calculate_pv_over_production"
        /\ UNCHANGED <<cacheVars, parseVars, medianVars, auxVars, allocInputs, summaryVars>>

NextAlloc ==
    \/ AddProduction
    \/ AddCompanyConsumption
    \/ CalculateCompany
    \/ AddApartmentConsumption
    \/ CalculateApartment
    \/ CalculatePvOverProduction

SpecAlloc == InitAlloc /\ [][NextAlloc]_vars

(***************************************************************************)
(* Claims about the allocation waterfall (checked under SpecAlloc)         *)
(***************************************************************************)
RMaxOf(a, b) == IF RLeq(a, b) THEN b ELSE a
RMinOf(a, b) == IF RLeq(a, b) THEN a ELSE b
RowIds == 1..Len(production_path)
FeesAt(i) == price_profile.data[spot_price_median_fees][i]
MedianAt(i) == price_profile.data[spot_price_median][i]
LeftoverAt(i) == RMaxOf(RSub(production_path[i], company_path[i]), RZero)

\* C5: in the frame of calculate_company, for every row,
\* after = max(consumption - production, 0),
\* leftover = max(production - consumption, 0),
\* value = price_with_fees * (consumption - after),
\* production = min(production, consumption) + leftover and
\* 0 <= consumption - after <= consumption; production 10, consumption 4 and
\* price_with_fees 5 give after 0, value 20 and leftover 6.
C5_CompanyBalance ==
    stage = "calculate_company" =>
        \A i \in RowIds :
            LET production == production_path[i]
                consumption == company_path[i]
                after == frame.data[company_after_pv][i]
                value == frame.data[value_after_subtraction][i]
                leftover == frame.data[pv_after_company][i]
                covered == RSub(consumption, after)
            IN  /\ REq(after, RMaxOf(RSub(consumption, production), RZero))
                /\ REq(leftover, RMaxOf(RSub(production, consumption), RZero))
                /\ REq(value, RMul(FeesAt(i), covered))
                /\ REq(production, RAdd(RMinOf(production, consumption), leftover))
                /\ RLeq(RZero, covered)
                /\ RLeq(covered, consumption)
                /\ (/\ REq(production, RInt(10))
                    /\ REq(consumption, RInt(4))
                    /\ REq(FeesAt(i), RInt(5)))
                   => /\ REq(after, RZero)
                      /\ REq(value, RInt(20))
                      /\ REq(leftover, RInt(6))

C5_Witness ==
    /\ stage = "calculate_company"
    /\ \E i \in RowIds :
           /\ REq(production_path[i], RInt(10))
           /\ REq(company_path[i], RInt(4))
           /\ REq(FeesAt(i), RInt(5))
           /\ REq(frame.data[value_after_subtraction][i], RInt(20))
    /\ \E i \in RowIds : RLt(RZero, frame.data[company_after_pv][i])

RECURSIVE UnitsSumAt(_, _, _)
UnitsSumAt(units, k, i) ==
    IF k > Len(units) THEN RZero
    ELSE RAdd(units[k].profile[i], UnitsSumAt(units, k + 1, i))

\* the surplus of row i before the frame is rounded
RawSurplusAt(i) ==
    RMaxOf(RSub(production_path[i],
                RAdd(company_path[i], UnitsSumAt(apartments_df, 1, i))),
           RZero)

\* x is y rounded to 3 decimals
IsRounded3(x, y) ==
    /\ 1000 % x.d = 0
    /\ RLeq(RSub(x, y), R(1, 2000))
    /\ RLeq(RSub(y, x), R(1, 2000))

\* C6: in every row of the frame returned by calculate_pv_over_production
\* (whose values are rounded to 3 decimals) the grid surplus is
\* max(production - (company consumption + sum of the units' consumption), 0),
\* is never negative and never exceeds production, and the grid value is the
\* price without fees times that surplus.
C6_GridSurplus ==
    stage = "calculate_pv_over_production" =>
        \A i \in RowIds :
            LET surplus == frame.data[pv_over_production][i]
                value == frame.data[value_to_grid][i]
            IN  /\ IsRounded3(surplus, RawSurplusAt(i))
                /\ RLeq(RZero, surplus)
                /\ RLeq(surplus, frame.data[production_column][i])
                /\ RLeq(RawSurplusAt(i), production_path[i])
                /\ IsRounded3(value, RMul(MedianAt(i), RawSurplusAt(i)))

C6_Witness ==
    /\ stage = "calculate_pv_over_production"
    /\ \E i \in RowIds :
           /\ RLt(RZero, frame.data[pv_over_production][i])
           /\ RLt(RZero, frame.data[value_to_grid][i])
           /\ ~REq(MedianAt(i), FeesAt(i))
    /\ \E i \in RowIds :
           /\ REq(frame.data[pv_over_production][i], RZero)
           /\ RLt(RZero, production_path[i])

\* C7: in the frame of calculate_apartment, for every unit and row,
\* unit_after = consumption - pv_leftover * allocation_weight, not clipped at
\* zero, and unit_value = price_with_fees * (consumption - unit_after);
\* weight 0.5, consumption 3 and pv_leftover 6 give unit_after 0 and
\* unit_value = price_with_fees * 3.
C7_UnitAfterUnclipped ==
    stage = "calculate_apartment" =>
        \A k \in DOMAIN apartments_df : \A i \in RowIds :
            LET unit == apartments_df[k]
                consumption == unit.profile[i]
                after == frame.data[AppAfterPvName(unit.apartment)][i]
                value == frame.data[ValueOfCoverageName(unit.apartment)][i]
            IN  /\ REq(after, RSub(consumption,
                                   RMul(LeftoverAt(i), unit.allocation)))
                /\ REq(value, RMul(FeesAt(i), RSub(consumption, after)))
                /\ (/\ REq(unit.allocation, R(1, 2))
                    /\ REq(consumption, RInt(3))
                    /\ REq(LeftoverAt(i), RInt(6)))
                   => /\ REq(after, RZero)
                      /\ REq(value, RMul(FeesAt(i), RInt(3)))

C7_Witness ==
    /\ stage = "calculate_apartment"
    /\ \E k \in DOMAIN apartments_df : \E i \in RowIds :
           /\ REq(apartments_df[k].allocation, R(1, 2))
           /\ REq(apartments_df[k].profile[i], RInt(3))
           /\ REq(LeftoverAt(i), RInt(6))
           /\ REq(frame.data[AppAfterPvName(apartments_df[k].apartment)][i], RZero)
    /\ \E k \in DOMAIN apartments_df : \E i \in RowIds :
           RLt(frame.data[AppAfterPvName(apartments_df[k].apartment)][i], RZero)

RECURSIVE AmountBefore(_, _)
\* the number of units expanded from the specs before spec k
AmountBefore(specs, k) ==
    IF k <= 1 THEN 0 ELSE specs[k - 1].amount + AmountBefore(specs, k - 1)

RECURSIVE AllocationSum(_, _, _)
AllocationSum(units, from, to) ==
    IF from > to THEN RZero
    ELSE RAdd(units[from].allocation, AllocationSum(units, from + 1, to))

ApartmentsResolved ==
    stage \in {"add_apartment_consumption", "calculate_apartment",
               "calculate_pv_over_production"}

\* the consumption columns of the units, in the order of the frame
UnitConsumptionCols ==
    SelectSeq(frame.cols,
              LAMBDA c : \E k \in DOMAIN apartments_df :
                             c = ApartmentConsumption(apartments_df[k].apartment))

\* C8: in by-type mode every spec with amount n and weight w becomes exactly
\* n units of weight w/n (the type's total weight is kept), the units are in
\* input list order and their suffixes come from one counter that starts at 1
\* and runs across all types (A x2, B x1 give A1, A2, B3); in by-apartment
\* mode every spec is used unchanged.
C8_ByTypeExpansion ==
    ApartmentsResolved =>
        /\ calculation_method = "by_apartment" => apartments_df = app_data_dict
        /\ calculation_method = "by_type" =>
               /\ Len(apartments_df)
                      = AmountBefore(app_data_dict, Len(app_data_dict) + 1)
               /\ \A k \in DOMAIN app_data_dict :
                      LET spec == app_data_dict[k]
                          off == AmountBefore(app_data_dict, k)
                      IN  /\ \A i \in 1..spec.amount :
                                 LET unit == apartments_df[off + i]
                                 IN  /\ unit.apartment
                                          = spec.apartment \o ToString(off + i)
                                     /\ REq(RMul(unit.allocation, RInt(spec.amount)),
                                            spec.allocation)
                                     /\ unit.profile = spec.profile
                          /\ REq(AllocationSum(apartments_df, off + 1,
                                               off + spec.amount),
                                 spec.allocation)
        /\ UnitConsumptionCols
               = [k \in DOMAIN apartments_df |->
                     ApartmentConsumption(apartments_df[k].apartment)]

C8_Witness ==
    /\ ApartmentsResolved
    /\ calculation_method = "by_type"
    /\ Len(app_data_dict) = 2
    /\ app_data_dict[1].apartment = "A" /\ app_data_dict[1].amount = 2
    /\ REq(app_data_dict[1].allocation, R(2, 10))
    /\ app_data_dict[2].apartment = "B" /\ app_data_dict[2].amount = 1
    /\ [k \in DOMAIN apartments_df |-> apartments_df[k].apartment]
           = <<"A1", "A2", "B3">>
    /\ REq(apartments_df[1].allocation, R(1, 10))
    /\ REq(apartments_df[2].allocation, R(1, 10))

(***************************************************************************)
(* Profile files: AuxiliaryFunc.profile_csv_to_dataframe                   *)
(*                                                                         *)
(* A cell of column 0 is a string.  What time.strptime looks at is its     *)
(* shape (which literals and which kinds of fields it is made of), the     *)
(* values of its day and month fields, and whether whitespace follows it.  *)
(* A cell is therefore [skel, a, b, pad]: skel is the shape with N for a   *)
(* one- or two-digit number, Y for a four-digit year, B for a month name,  *)
(* T for hh:mm:ss and z for a UTC offset; a and b are the first and the    *)
(* second number of the shape (0 when the shape has none); pad tells       *)
(* whether whitespace follows the text.                                    *)
(***************************************************************************)
MaxRows == 2
SampleHead == 20

Fmt(pattern, skel, first, second, supported, trailing) ==
    [pattern |-> pattern, skel |-> skel, first |-> first, second |-> second,
     supported |-> supported, trailing |-> trailing]

\* AuxiliaryVar.date_time_formats, in list order.  first and second say what
\* the two numbers of the shape are read as ("m" month, "d" day, "-" no such
\* number); supported is FALSE for the patterns with the directive %e, which
\* time.strptime rejects with ValueError whatever the string; trailing is
\* TRUE for the patterns that end in whitespace.
date_time_formats ==
    << Fmt("%m/%d/",               "N/N/",      "m", "d", TRUE,  FALSE),
       Fmt("%d/%m/",               "N/N/",      "d", "m", TRUE,  FALSE),
       Fmt("%m-%d",                "N-N",       "m", "d", TRUE,  FALSE),
       Fmt("%f/%e/",               "f/e/",      "-", "-", FALSE, FALSE),
       Fmt("%b %e, ",              "b e,",      "-", "-", FALSE, TRUE),
       Fmt("%B %e, ",              "B e,",      "-", "-", FALSE, TRUE),
       Fmt("%m-%d %H:%M:%S",       "N-N T",     "m", "d", TRUE,  FALSE),
       Fmt("%m-%d %I:%M:%S %p",    "N-N T p",   "m", "d", TRUE,  FALSE),
       Fmt("%d %B ",               "N B",       "d", "-", TRUE,  TRUE),
       Fmt("%b %e, ",              "b e,",      "-", "-", FALSE, TRUE),
       Fmt("%H:%M:%S",             "T",         "-", "-", TRUE,  FALSE),
       Fmt("%I:%M:%S %p",          "T p",       "-", "-", TRUE,  FALSE),
       Fmt("%d.%m. %H:%M",         "N.N. HM",   "d", "m", TRUE,  FALSE),
       Fmt("%m/%d/%Y",             "N/N/Y",     "m", "d", TRUE,  FALSE),
       Fmt("%d/%m/%Y",             "N/N/Y",     "d", "m", TRUE,  FALSE),
       Fmt("%Y-%m-%d",             "Y-N-N",     "m", "d", TRUE,  FALSE),
       Fmt("%f/%e/%Y",             "f/e/Y",     "-", "-", FALSE, FALSE),
       Fmt("%b %e, %Y",            "b e, Y",    "-", "-", FALSE, FALSE),
       Fmt("%B %e, %Y",            "B e, Y",    "-", "-", FALSE, FALSE),
       Fmt("%Y-%m-%d %H:%M:%S",    "Y-N-N T",   "m", "d", TRUE,  FALSE),
       Fmt("%Y-%m-%d %I:%M:%S %p", "Y-N-N T p", "m", "d", TRUE,  FALSE),
       Fmt("%d %B %Y",             "N B Y",     "d", "-", TRUE,  FALSE),
       Fmt("%b %e, %Y",            "b e, Y",    "-", "-", FALSE, FALSE),
       Fmt("%H:%M:%S",             "T",         "-", "-", TRUE,  FALSE),
       Fmt("%I:%M:%S %p",          "T p",       "-", "-", TRUE,  FALSE),
       Fmt("%Y-%d.%m. %H:%M",      "Y-N.N. HM", "d", "m", TRUE,  FALSE),
       Fmt("%Y-%m-%d %H:%M:%S%z",  "Y-N-N Tz",  "m", "d", TRUE,  FALSE) >>

None == "None"

\* a missing cell of column 0
NaN == [skel |-> "NaN", a |-> 0, b |-> 0, pad |-> FALSE]

\* the file of read_csv(path) does not exist
FileNotFound == << [skel |-> "FileNotFoundError", a |-> 0, b |-> 0, pad |-> FALSE] >>

\* the numbers a cell is written with: 1 is a month and a day, 13 a day only
FieldValues == {1, 13}

Cell(skel, a, b, pad) == [skel |-> skel, a |-> a, b |-> b, pad |-> pad]

Cells ==
    {Cell(sk, x, y, pd) : sk \in {"N/N/", "N/N/Y", "N-N", "Y-N-N Tz"},
                          x \in FieldValues, y \in FieldValues, pd \in BOOLEAN}
    \cup {Cell("N B", x, 0, pd) : x \in FieldValues, pd \in BOOLEAN}
    \cup {Cell(sk, 0, 0, pd) : sk \in {"T", "?"}, pd \in BOOLEAN}
    \cup {NaN}

Columns ==
    UNION {[1..n -> Cells] : n \in 0..MaxRows} \cup {FileNotFound}

\* sample.strip()
Strip(sample) == [sample EXCEPT !.pad = FALSE]

FieldOk(kind, value) ==
    CASE kind = "m" -> value \in 1..12
      [] kind = "d" -> value \in 1..31
      [] OTHER      -> TRUE

\* time.strptime(string, dt_format) returns instead of raising ValueError
strptime(string, dt_format) ==
    /\ dt_format.supported
    /\ string.skel = dt_format.skel
    /\ string.pad = dt_format.trailing
    /\ FieldOk(dt_format.first, string.a)
    /\ FieldOk(dt_format.second, string.b)

\* dataframe[0].dropna().astype(str).head(20)
Samples(col) ==
    LET kept == SelectSeq(col, LAMBDA c : c # NaN)
    IN  SubSeq(kept, 1, IF Len(kept) < SampleHead THEN Len(kept) ELSE SampleHead)

\* the formats the inner loop finds to parse the sample
ParsingFormats(sample) ==
    {i \in DOMAIN date_time_formats : strptime(Strip(sample), date_time_formats[i])}

\* the inner loop walks the list from its head and breaks at the first success
FormatChoice_last(sample) ==
    CHOOSE i \in ParsingFormats(sample) : \A j \in ParsingFormats(sample) : j <= i

FormatChoice(sample) ==
    CHOOSE i \in ParsingFormats(sample) : \A j \in ParsingFormats(sample) : i <= j

RECURSIVE DetectFrom(_, _)
\* the outer loop: the first sample that some format parses decides
DetectFrom(samples, k) ==
    IF k > Len(samples) THEN 0
    ELSE IF ParsingFormats(samples[k]) # {} THEN FormatChoice(samples[k])
    ELSE DetectFrom(samples, k + 1)

\* pd.to_datetime(dataframe[0], format=...): every cell that is not missing
\* has to parse.  The cells are not stripped here; lenient says whether the
\* installed pandas accepts text followed by whitespace.
to_datetime(col, i, lenient) ==
    \A k \in DOMAIN col :
        \/ col[k] = NaN
        \/ strptime(col[k], date_time_formats[i])
        \/ lenient /\ strptime(Strip(col[k]), date_time_formats[i])

\* [matched_format, result] of profile_csv_to_dataframe; the result is the
\* class pd.DataFrame after an exception, else the frame handed to
\* resample_quarter_to_hour with or without a DateTime index
profile_csv_to_dataframe(col, lenient) ==
    IF col = FileNotFound
    THEN [matched_format |-> "unset", result |-> DataFrameClass]
    ELSE LET i == DetectFrom(Samples(col), 1)
         IN  IF i = 0
             THEN [matched_format |-> None, result |-> "no_index"]
             ELSE [matched_format |-> date_time_formats[i].pattern,
                   result |-> IF to_datetime(col, i, lenient)
                              THEN "datetime_index" ELSE DataFrameClass]

InitParse ==
    /\ column \in Columns
    /\ matched_format = "unset"
    /\ profile_result = "unset"
    /\ IdleCache
    /\ IdleAlloc
    /\ IdleMedian
    /\ IdleAux

ProfileCsvToDataframe ==
    /\ profile_result = "unset"
    /\ \E lenient \in BOOLEAN :
           \E r \in {profile_csv_to_dataframe(column, lenient)} :
               /\ matched_format' = r.matched_format
               /\ profile_result' = r.result
    /\ UNCHANGED <<cacheVars, allocVars, medianVars, auxVars, column>>

NextParse == ProfileCsvToDataframe

SpecParse == InitParse /\ [][NextParse]_vars

(***************************************************************************)
(* Claims about the format detection                                       *)
(***************************************************************************)
Detected == profile_result # "unset" /\ column # FileNotFound

\* every sampled string of the column conforms to the pattern at position p
AllConform(p) ==
    /\ Samples(column) # <<>>
    /\ \A k \in DOMAIN Samples(column) :
           strptime(Strip(Samples(column)[k]), date_time_formats[p])

\* C9 as stated: a column whose sampled strings all conform to a pattern P of
\* the list is matched as P.
C9_MatchedIsP ==
    Detected =>
        \A p \in DOMAIN date_time_formats :
            AllConform(p) => matched_format = date_time_formats[p].pattern

\* C9: when the sampled strings all conform to a pattern P of the list, the
\* matched format is the earliest pattern of the list that parses the first
\* sample; that pattern is never later in the list than P, and it is P
\* itself exactly when no earlier pattern parses the first sample.
C9_EarliestParsingPattern ==
    Detected =>
        \A p \in DOMAIN date_time_formats :
            AllConform(p) =>
                \E q \in 1..p :
                    /\ strptime(Strip(Samples(column)[1]), date_time_formats[q])
                    /\ \A j \in 1..(q - 1) :
                           ~strptime(Strip(Samples(column)[1]), date_time_formats[j])
                    /\ matched_format = date_time_formats[q].pattern

\* every sample is a dd/mm/ string that is also a mm/dd/ string, and the
\* earlier pattern of the list is the one matched
C9_Witness ==
    /\ Detected
    /\ Len(Samples(column)) = MaxRows
    /\ AllConform(2)
    /\ date_time_formats[2].pattern = "%d/%m/"
    /\ matched_format = "%m/%d/"

(***************************************************************************)
(* The hourly median: spot_pivot_by_hour and spot_calculate_median         *)
(*                                                                         *)
(* The pivot has one row per hour_key and one column per year.  A cell     *)
(* without a price holds NaN.                                              *)
(***************************************************************************)
NaNValue == [n |-> 0, d |-> 0]

\* __init__ defaults
vat_perc == R(255, 1000)
transfer_fee_perc == R(111, 1000)
\* VAT charged on top of the transfer fee
additional_fee_compound ==
    RMul(RAdd(RInt(1), vat_perc), RAdd(RInt(1), transfer_fee_perc))

additional_fee == RAdd(RInt(1), RAdd(vat_perc, transfer_fee_perc))

\* index.strftime("%m-%d %H:%M:%S%z"): the timestamp without its year
hour_key(row) == [month |-> row.month, day |-> row.day]

KeyLeq(a, b) == a.month < b.month \/ (a.month = b.month /\ a.day <= b.day)

RECURSIVE SortKeys(_)
\* the index of the pivot, in the order of the formatted keys
SortKeys(keys) ==
    IF keys = {} THEN <<>>
    ELSE LET m == CHOOSE x \in keys : \A y \in keys : KeyLeq(x, y)
         IN  <<m>> \o SortKeys(keys \ {m})

RECURSIVE SortYears(_)
\* sort_index(axis=1)
SortYears(years) ==
    IF years = {} THEN <<>>
    ELSE LET m == CHOOSE x \in years : \A y \in years : x <= y
         IN  <<m>> \o SortYears(years \ {m})

RECURSIVE SumValues(_, _)
SumValues(rows, i) ==
    IF i > Len(rows) THEN RZero ELSE RAdd(rows[i].value, SumValues(rows, i + 1))

\* pivot_table aggregates the rows of one cell by their mean
CellMean(rows) ==
    IF rows = <<>> THEN NaNValue ELSE RDivInt(SumValues(rows, 1), Len(rows))

PivotRow(rows, years) ==
    [j \in 1..Len(years) |->
        CellMean(SelectSeq(rows, LAMBDA r : r.year = years[j]))]

RECURSIVE PivotRows(_, _, _, _)
PivotRows(dataframe, keys, years, i) ==
    IF i > Len(keys) THEN <<>>
    ELSE CHOOSE t \in
             {<<PivotRow(rows, years)>> \o PivotRows(dataframe, keys, years, i + 1) :
                  rows \in {SelectSeq(dataframe, LAMBDA r : hour_key(r) = keys[i])}} :
             TRUE

\* price is what the spot_get_price call inside returned
spot_pivot_by_hour(price) ==
    IF ~price.ok THEN [NoTable EXCEPT !.called = TRUE]
    ELSE LET keys == SortKeys({hour_key(price.ret[i]) : i \in DOMAIN price.ret})
             years == SortYears(YearsOf(price.ret))
         IN  [called |-> TRUE, ok |-> TRUE, index |-> keys, years |-> years,
              data |-> PivotRows(price.ret, keys, years, 1),
              median |-> <<>>, median_fees |-> <<>>]

RECURSIVE SortValues(_)
SortValues(values) ==
    IF values = <<>> THEN <<>>
    ELSE LET i == CHOOSE i \in DOMAIN values :
                      \A j \in DOMAIN values : RLeq(values[i], values[j])
         IN  <<values[i]>>
             \o SortValues([k \in 1..(Len(values) - 1) |->
                               IF k < i THEN values[k] ELSE values[k + 1]])

\* median(axis=1) skips the cells that hold NaN
MedianValues_fillna(cells) ==
    [j \in DOMAIN cells |-> IF cells[j] = NaNValue THEN RZero ELSE cells[j]]

MedianValues(cells) == SelectSeq(cells, LAMBDA c : c # NaNValue)

Median(cells) ==
    LET v == SortValues(MedianValues(cells))
        n == Len(v)
    IN  IF n = 0 THEN NaNValue
        ELSE IF n % 2 = 1 THEN v[(n + 1) \div 2]
        ELSE RDivInt(RAdd(v[n \div 2], v[(n \div 2) + 1]), 2)

\* the second median is taken over the frame that already holds the first
MedianWithFees(cells, median) ==
    LET m == Median(cells \o <<median>>)
    IN  IF m = NaNValue THEN NaNValue ELSE RMul(m, additional_fee)

spot_calculate_median(price) ==
    CHOOSE t \in
        {IF ~dataframe.ok THEN dataframe
         ELSE CHOOSE u \in
                  {[dataframe EXCEPT
                       !.median = median,
                       !.median_fees =
                           [i \in DOMAIN median |->
                               MedianWithFees(dataframe.data[i], median[i])]] :
                   median \in {[i \in DOMAIN dataframe.index |->
                                   Median(dataframe.data[i])]}} : TRUE :
         dataframe \in {spot_pivot_by_hour(price)}} : TRUE

InitMedian ==
    /\ cache_file = NoFile
    /\ clock = FirstClockYear
    /\ config_length \in 1..MaxAnalysisLength
    /\ analysis_length = CapLength(config_length)
    /\ last = NoCall
    /\ median_df = NoTable
    /\ IdleAlloc
    /\ IdleParse
    /\ IdleAux

\* a caller invokes spot_calculate_median(), which asks spot_get_price()
SpotCalculateMedian ==
    \E service_ok \in BOOLEAN :
        \E r \in {spot_get_price(cache_file, clock, analysis_length, service_ok)} :
            /\ cache_file' = r.file
            /\ last' = [called |-> TRUE, now |-> clock, arg |-> config_length,
                        len |-> analysis_length,
                        ok |-> r.ok, fetches |-> r.fetches,
                        before |-> cache_file, ret |-> r.ret,
                        repeat |-> /\ last.called
                                   /\ last.ok
                                   /\ last.now = clock
                                   /\ last.len = analysis_length]
            /\ median_df' = spot_calculate_median(r)
            /\ UNCHANGED <<clock, config_length, analysis_length, allocVars, parseVars, auxVars>>

\* the system clock passes into the next calendar year
MedianNewYear == NewYear /\ UNCHANGED median_df

NextMedian == SpotCalculateMedian \/ MedianNewYear

SpecMedian == InitMedian /\ [][NextMedian]_vars

(***************************************************************************)
(* Claims about the hourly median (checked under SpecMedian)               *)
(***************************************************************************)
\* the rows of the windowed series that hold a price for the hour_key h
PricesOf(h) == SelectSeq(last.ret, LAMBDA r : hour_key(r) = h)

YearsWith(h) == {last.ret[i].year : i \in {j \in DOMAIN last.ret : hour_key(last.ret[j]) = h}}

AtMost(prices, v) == Cardinality({j \in DOMAIN prices : RLeq(prices[j].value, v)})
AtLeast(prices, v) == Cardinality({j \in DOMAIN prices : RLeq(v, prices[j].value)})

\* m is the statistical median of the k prices, one per year: the middle
\* price for odd k, the mean of the two middle prices for even k
IsStatisticalMedian(m, prices) ==
    LET k == Len(prices)
    IN  /\ k > 0
        /\ Cardinality({prices[j].year : j \in DOMAIN prices}) = k
        /\ IF k % 2 = 1
           THEN \E j \in DOMAIN prices :
                    /\ m = prices[j].value
                    /\ 2 * AtMost(prices, m) > k
                    /\ 2 * AtLeast(prices, m) > k
           ELSE \E j1 \in DOMAIN prices :
                    /\ 2 * AtMost(prices, prices[j1].value) >= k
                    /\ 2 * AtLeast(prices, prices[j1].value) >= k + 2
                    /\ \E j2 \in DOMAIN prices \ {j1} :
                           /\ 2 * AtMost(prices, prices[j2].value) >= k + 2
                           /\ 2 * AtLeast(prices, prices[j2].value) >= k
                           /\ RAdd(m, m) = RAdd(prices[j1].value, prices[j2].value)

MedianAtKey(h) ==
    median_df.median[CHOOSE i \in DOMAIN median_df.index : median_df.index[i] = h]

\* C10: every hour_key of the windowed price series has a row in the median
\* table, and its 'Spot median' is the statistical median of the prices of
\* exactly the years in which the hour_key is present; a year without the
\* hour_key is left out, it does not count as a price of zero.
C10_MedianOfPresentYears ==
    (median_df.called /\ median_df.ok) =>
        /\ {median_df.index[i] : i \in DOMAIN median_df.index}
               = {hour_key(last.ret[i]) : i \in DOMAIN last.ret}
        /\ Len(median_df.median) = Len(median_df.index)
        /\ \A i \in DOMAIN median_df.index :
               \E prices \in {PricesOf(median_df.index[i])} :
                   IsStatisticalMedian(median_df.median[i], prices)

Feb29 == [month |-> 2, day |-> 29]

\* February 29 is present in 2 of the 8 years 2016..2023, with the prices 4
\* and 0: its median is 2, not the 0 that six absent years counted as zero
\* would give
C10_Witness ==
    /\ median_df.called /\ median_df.ok
    /\ median_df.years = [j \in 1..8 |-> 2015 + j]
    /\ YearsWith(Feb29) = {2016, 2020}
    /\ PricesOf(Feb29)[1].value = RInt(4)
    /\ PricesOf(Feb29)[2].value = RZero
    /\ MedianAtKey(Feb29) = RInt(2)

(***************************************************************************)
(* Leap-day reconciliation: AuxiliaryFunc.remove_feb_29_if_mismatch        *)
(*                                                                         *)
(* The function looks at the number of rows of its two frames and at the   *)
(* month and the day of every index entry.  A frame is therefore the       *)
(* sequence of its calendar days, each [year, month, day, rows] with the   *)
(* number of rows of that day.                                             *)
(***************************************************************************)
LeapYearRows == 8784
CommonYearRows == 8760
\* the rows of one day of an hourly frame: what a leap year has more
HoursPerDay == LeapYearRows - CommonYearRows

Day(y, m, d, rows) == [year |-> y, month |-> m, day |-> d, rows |-> rows]

DaysInMonth(y, m) ==
    CASE m = 2 -> IF IsLeapYear(y) THEN 29 ELSE 28
      [] m \in {4, 6, 9, 11} -> 30
      [] OTHER -> 31

RECURSIVE DaysFrom(_, _, _)
\* the days of year y from month m on, each with the same number of rows
DaysFrom(y, m, rows) ==
    IF m > MonthsPerYear THEN <<>>
    ELSE [d \in 1..DaysInMonth(y, m) |-> Day(y, m, d, rows)] \o DaysFrom(y, m + 1, rows)

Frame(days) == [ok |-> TRUE, days |-> days]

\* the class pd.DataFrame, handed on by a load that failed
FrameClass == [ok |-> FALSE, days |-> <<>>]

\* hourly frames: two common years, a leap year, a common year followed by
\* January 1 of the next year (8784 rows, no February 29), a leap year that
\* ends on December 30 (8760 rows, with February 29), three days around a
\* February 29, a quarter-hourly common year, an empty frame, and the class
AlignFrames ==
    { Frame(DaysFrom(2022, 1, HoursPerDay)),
      Frame(DaysFrom(2023, 1, HoursPerDay)),
      Frame(DaysFrom(2024, 1, HoursPerDay)),
      Frame(DaysFrom(2023, 1, HoursPerDay) \o <<Day(2024, 1, 1, HoursPerDay)>>),
      Frame(SubSeq(DaysFrom(2024, 1, HoursPerDay), 1, 365)),
      Frame(<<Day(2024, 2, 28, HoursPerDay), Day(2024, 2, 29, HoursPerDay),
              Day(2024, 3, 1, HoursPerDay)>>),
      Frame(DaysFrom(2023, 1, 4 * HoursPerDay)),
      Frame(<<>>),
      FrameClass }

RECURSIVE RowCount(_, _, _)
\* the rows of the days lo..hi, counted by halves
RowCount(days, lo, hi) ==
    IF lo > hi THEN 0
    ELSE IF lo = hi THEN days[lo].rows
    ELSE RowCount(days, lo, (lo + hi) \div 2)
         + RowCount(days, ((lo + hi) \div 2) + 1, hi)

\* len(df)
len(df) == RowCount(df.days, 1, Len(df.days))

remove_feb_29_all_february(df) ==
    [df EXCEPT !.days = SelectSeq(df.days, LAMBDA r : ~(r.month = 2))]

\* df[~((df.index.month == 2) & (df.index.day == 29))]
remove_feb_29(df) ==
    [df EXCEPT !.days = SelectSeq(df.days, LAMBDA r : ~(r.month = 2 /\ r.day = 29))]

\* the if / elif / elif on the two row counts
AlignByLength(d1, d2, len1, len2) ==
    IF len1 = LeapYearRows /\ len2 = CommonYearRows
    THEN [called |-> TRUE, df1 |-> remove_feb_29(d1), df2 |-> d2, warning |-> FALSE]
    ELSE IF len2 = LeapYearRows /\ len1 = CommonYearRows
    THEN [called |-> TRUE, df1 |-> d1, df2 |-> remove_feb_29(d2), warning |-> FALSE]
    ELSE [called |-> TRUE, df1 |-> d1, df2 |-> d2, warning |-> len1 # len2]

\* len() of the class raises, and the handler returns the arguments as they are
remove_feb_29_if_mismatch(d1, d2) ==
    IF ~d1.ok \/ ~d2.ok
    THEN [called |-> TRUE, df1 |-> d1, df2 |-> d2, warning |-> FALSE]
    ELSE CHOOSE r \in {AlignByLength(d1, d2, len1, len2) :
                           len1 \in {len(d1)}, len2 \in {len(d2)}} : TRUE

InitAlign ==
    /\ align_df1 \in AlignFrames
    /\ align_df2 \in AlignFrames
    /\ aligned = NoAligned
    /\ IdleResample
    /\ IdleCache
    /\ IdleAlloc
    /\ IdleParse
    /\ IdleMedian

RemoveFeb29IfMismatch ==
    /\ ~aligned.called
    /\ aligned' = remove_feb_29_if_mismatch(align_df1, align_df2)
    /\ UNCHANGED <<cacheVars, allocVars, parseVars, medianVars, resampleVars,
                   align_df1, align_df2>>

NextAlign == RemoveFeb29IfMismatch

SpecAlign == InitAlign /\ [][NextAlign]_vars

(***************************************************************************)
(* Claims about the leap-day reconciliation (checked under SpecAlign)      *)
(***************************************************************************)
IsFeb29(r) == r.month = 2 /\ r.day = 29

\* the positions of the February 29 days of a frame
Feb29Days(days) == {i \in DOMAIN days : IsFeb29(days[i])}

\* the number of February 29 rows of a frame
Feb29Rows(days) ==
    RowCount(SelectSeq(days, IsFeb29), 1, Cardinality(Feb29Days(days)))

\* the row counts are 8784 for a and 8760 for b
LeapMismatch(a, b) ==
    a.ok /\ b.ok /\ len(a) = LeapYearRows /\ len(b) = CommonYearRows

\* out is a without exactly its February 29 rows: the other days are all
\* there, in their order, and no February 29 day is
OnlyFeb29Removed(a, out) ==
    /\ out.ok
    /\ Feb29Days(out.days) = {}
    /\ Len(out.days) = Len(a.days) - Cardinality(Feb29Days(a.days))
    /\ \A i \in DOMAIN a.days :
           ~IsFeb29(a.days[i]) =>
               out.days[i - Cardinality({j \in Feb29Days(a.days) : j < i})] = a.days[i]

\* C11 as stated: with 8784 and 8760 rows both returned frames have 8760
\* rows, the rows removed are the February 29 rows of the 8784-row frame and
\* the other frame is unchanged; with any other row counts both are unchanged.
C11_BothHaveCommonYearRows ==
    aligned.called =>
        IF LeapMismatch(align_df1, align_df2)
        THEN /\ len(aligned.df1) = CommonYearRows
             /\ len(aligned.df2) = CommonYearRows
             /\ OnlyFeb29Removed(align_df1, aligned.df1)
             /\ aligned.df2 = align_df2
        ELSE IF LeapMismatch(align_df2, align_df1)
        THEN /\ len(aligned.df1) = CommonYearRows
             /\ len(aligned.df2) = CommonYearRows
             /\ OnlyFeb29Removed(align_df2, aligned.df2)
             /\ aligned.df1 = align_df1
        ELSE aligned.df1 = align_df1 /\ aligned.df2 = align_df2

\* C11: with 8784 and 8760 rows the 8760-row frame is returned unchanged and
\* the 8784-row frame is returned without exactly its February 29 rows, so
\* it has 8784 minus the number of those rows left: 8760 when it held the 24
\* rows of one February 29; with any other row counts both are unchanged.
C11_Feb29RowsRemoved ==
    aligned.called =>
        IF LeapMismatch(align_df1, align_df2)
        THEN /\ OnlyFeb29Removed(align_df1, aligned.df1)
             /\ len(aligned.df1) = LeapYearRows - Feb29Rows(align_df1.days)
             /\ (Feb29Rows(align_df1.days) = HoursPerDay
                     => len(aligned.df1) = CommonYearRows)
             /\ aligned.df2 = align_df2
        ELSE IF LeapMismatch(align_df2, align_df1)
        THEN /\ OnlyFeb29Removed(align_df2, aligned.df2)
             /\ len(aligned.df2) = LeapYearRows - Feb29Rows(align_df2.days)
             /\ (Feb29Rows(align_df2.days) = HoursPerDay
                     => len(aligned.df2) = CommonYearRows)
             /\ aligned.df1 = align_df1
        ELSE aligned.df1 = align_df1 /\ aligned.df2 = align_df2

\* the second frame is the leap year 2024, the first a common year: the 24
\* rows of February 29 leave the second frame, which then has 8760 rows
C11_Witness ==
    /\ aligned.called
    /\ LeapMismatch(align_df2, align_df1)
    /\ Feb29Rows(align_df2.days) = HoursPerDay
    /\ Feb29Rows(aligned.df2.days) = 0
    /\ len(aligned.df2) = CommonYearRows
    /\ aligned.df1 = align_df1

(***************************************************************************)
(* AuxiliaryFunc.resample_quarter_to_hour                                  *)
(*                                                                         *)
(* Timestamps are minutes counted from the start of some day's first hour. *)
(***************************************************************************)
MaxQuarters == 8
MinutesPerHour == 60
QuarterMinutes == 15

\* the readings of a profile
SampleValues == {RZero, RInt(1)}

\* n timestamps from start on, step minutes apart; with gap one reading
\* after the second is missing
IndexOf(start, step, n, gap) ==
    [i \in 1..n |-> start + (i - 1) * step + (IF gap /\ i > 2 THEN step ELSE 0)]

ResampleFrames ==
    UNION { { [ok |-> TRUE, index |-> IndexOf(start, step, n, gap), values |-> v] :
                  start \in {0, QuarterMinutes, 3 * QuarterMinutes},
                  step \in {QuarterMinutes, 2 * QuarterMinutes, MinutesPerHour},
                  gap \in BOOLEAN,
                  v \in [1..n -> SampleValues] } : n \in 0..MaxQuarters }
    \cup {[ok |-> FALSE, index |-> <<>>, values |-> <<>>]}

\* pd.infer_freq(index) with pandas 2.2 names: "raise" for fewer than 3
\* timestamps, "None" for steps that differ
infer_freq(index) ==
    IF Len(index) < 3 THEN "raise"
    ELSE IF \E i \in 2..(Len(index) - 1) :
                index[i + 1] - index[i] # index[2] - index[1]
    THEN "None"
    ELSE IF index[2] - index[1] = QuarterMinutes THEN "15min"
    ELSE IF index[2] - index[1] = MinutesPerHour THEN "h"
    ELSE ToString(index[2] - index[1]) \o "min"

\* resample('1h') puts a row into the bin of its clock hour
HourBin_by_position(index, i) == (index[1] \div MinutesPerHour) + ((i - 1) \div 4)

HourBin(index, i) == index[i] \div MinutesPerHour

RECURSIVE SumOver(_, _)
SumOver(values, rows) ==
    IF rows = {} THEN RZero
    ELSE LET i == CHOOSE i \in rows : TRUE
         IN  RAdd(values[i], SumOver(values, rows \ {i}))

\* .mean() of one bin; a bin without rows holds NaN
BinMean(values, rows) ==
    IF rows = {} THEN NaNValue ELSE RDivInt(SumOver(values, rows), Cardinality(rows))

\* dataframe.resample('1h').mean(): one row for every clock hour from the
\* first to the last timestamp
resample_1h_mean(dataframe) ==
    LET index == dataframe.index
        first == HourBin(index, 1)
        bins == {HourBin(index, i) : i \in DOMAIN index}
        last_bin == CHOOSE b \in bins : \A c \in bins : c <= b
    IN  [ok |-> TRUE,
         index |-> [k \in 1..(last_bin - first + 1) |-> (first + k - 1) * MinutesPerHour],
         values |-> [k \in 1..(last_bin - first + 1) |->
                        BinMean(dataframe.values,
                                {i \in DOMAIN index : HourBin(index, i) = first + k - 1})]]

resample_quarter_to_hour(dataframe) ==
    IF ~dataframe.ok \/ infer_freq(dataframe.index) = "raise"
    THEN [called |-> TRUE, ok |-> FALSE, index |-> <<>>, values |-> <<>>]
    ELSE IF infer_freq(dataframe.index) = "15min"
    THEN [called |-> TRUE] @@ resample_1h_mean(dataframe)
    ELSE [called |-> TRUE] @@ dataframe

InitResample ==
    /\ resample_df \in ResampleFrames
    /\ resampled = NoResampled
    /\ IdleAlign
    /\ IdleCache
    /\ IdleAlloc
    /\ IdleParse
    /\ IdleMedian

ResampleQuarterToHour ==
    /\ ~resampled.called
    /\ resampled' = resample_quarter_to_hour(resample_df)
    /\ UNCHANGED <<cacheVars, allocVars, parseVars, medianVars, alignVars, resample_df>>

NextResample == ResampleQuarterToHour

SpecResample == InitResample /\ [][NextResample]_vars

(***************************************************************************)
(* Claims about the resampling (checked under SpecResample)                *)
(***************************************************************************)
\* the argument is a series at 15-minute frequency
QuarterHourly ==
    /\ resample_df.ok
    /\ Len(resample_df.index) >= 3
    /\ \A i \in 1..(Len(resample_df.index) - 1) :
           resample_df.index[i + 1] - resample_df.index[i] = QuarterMinutes

\* the argument has another frequency that is detected
OtherFrequency ==
    /\ resample_df.ok
    /\ Len(resample_df.index) >= 3
    /\ ~QuarterHourly

SameRows ==
    /\ resampled.ok
    /\ resampled.index = resample_df.index
    /\ resampled.values = resample_df.values

\* four times m is the sum of the four readings from position j on
MeanOfFour(m, j) ==
    RMul(RInt(4), m)
        = RAdd(RAdd(resample_df.values[j], resample_df.values[j + 1]),
               RAdd(resample_df.values[j + 2], resample_df.values[j + 3]))

\* C12 as stated: N quarter-hour values become exactly N/4 hourly rows, each
\* the mean of its 4 source values; a series of another frequency comes back
\* with the same rows and values.
C12_QuarterOfRows ==
    resampled.called =>
        /\ QuarterHourly =>
               /\ resampled.ok
               /\ 4 * Len(resampled.values) = Len(resample_df.values)
               /\ \A k \in DOMAIN resampled.values :
                      MeanOfFour(resampled.values[k], 4 * (k - 1) + 1)
        /\ OtherFrequency => SameRows

\* the positions of the readings taken within the clock hour that starts at t
WithinHour(t) ==
    {i \in DOMAIN resample_df.index :
         t <= resample_df.index[i] /\ resample_df.index[i] < t + MinutesPerHour}

\* C12: a series at 15-minute frequency becomes one row for every clock hour
\* it touches, each the arithmetic mean of the readings taken within that
\* clock hour; these are exactly N/4 rows, each the mean of 4 readings, when
\* the series starts on the hour and N is a multiple of 4.  A series of
\* another detected frequency comes back with the same rows and values.
C12_MeanPerClockHour ==
    resampled.called =>
        /\ QuarterHourly =>
               /\ resampled.ok
               /\ Len(resampled.values) = Len(resampled.index)
               /\ \A i \in DOMAIN resample_df.index :
                      \E k \in DOMAIN resampled.index : i \in WithinHour(resampled.index[k])
               /\ \A k \in DOMAIN resampled.index :
                      /\ resampled.index[k] % MinutesPerHour = 0
                      /\ k > 1 => resampled.index[k] = resampled.index[k - 1] + MinutesPerHour
                      /\ WithinHour(resampled.index[k]) # {}
                      /\ RMul(RInt(Cardinality(WithinHour(resampled.index[k]))),
                              resampled.values[k])
                             = SumOver(resample_df.values, WithinHour(resampled.index[k]))
               /\ (/\ resample_df.index[1] % MinutesPerHour = 0
                   /\ Len(resample_df.values) % 4 = 0)
                      => /\ 4 * Len(resampled.values) = Len(resample_df.values)
                         /\ \A k \in DOMAIN resampled.values :
                                MeanOfFour(resampled.values[k], 4 * (k - 1) + 1)
        /\ OtherFrequency => SameRows

\* eight quarter-hours from 00:15 on touch three clock hours: three rows,
\* the means of 3, 4 and 1 readings
C12_Witness ==
    /\ resampled.called
    /\ QuarterHourly
    /\ resample_df.index[1] = QuarterMinutes
    /\ resample_df.values
           = <<RInt(1), RZero, RZero, RInt(1), RZero, RInt(1), RZero, RInt(1)>>
    /\ resampled.index = <<0, MinutesPerHour, 2 * MinutesPerHour>>
    /\ resampled.values = <<R(1, 3), R(1, 2), RInt(1)>>

(***************************************************************************)
(* More claims about the Price Cache Manager (checked under SpecCache)     *)
(***************************************************************************)
\* the file of the last call is the file before it with k rows put in front
\* and the rest put behind
KeptWithFront(k) ==
    LET before == last.before.rows
        after == cache_file.rows
    IN  /\ SubSeq(after, k + 1, k + Len(before)) = before
        /\ \A i \in 1..k : RowBefore(after[i], before[1])
        /\ \A i \in (k + Len(before) + 1)..Len(after) :
               RowBefore(before[Len(before)], after[i])

\* C13: after a spot_get_price call every row that the cache file held before
\* the call is still in it, with its value and in its place among the old
\* rows; the rows that were added all lie before the earliest or after the
\* latest of the old rows.
C13_OldRowsKept ==
    (last.called /\ last.before.exists) =>
        /\ cache_file.exists
        /\ Len(cache_file.rows) >= Len(last.before.rows)
        /\ \E k \in 0..(Len(cache_file.rows) - Len(last.before.rows)) : KeptWithFront(k)

\* a trailing repair: the old rows are the head of the new file
C13_Witness ==
    /\ last.called /\ last.ok
    /\ HadTrailingGap
    /\ Len(cache_file.rows) > Len(last.before.rows)
    /\ KeptWithFront(0)
    /\ cache_file.rows[Len(cache_file.rows)].year = LastEnd

\* C14: whatever calls were made, with whatever clocks and analysis lengths,
\* the cache file, once it exists, has strictly increasing timestamps (so no
\* timestamp twice) and the years it holds form one range without a hole.
C14_CacheChronologicalContiguous ==
    cache_file.exists =>
        /\ cache_file.rows # <<>>
        /\ IsChronological(cache_file.rows)
        /\ YearsOf(cache_file.rows)
               = YearMin(cache_file.rows)..YearMax(cache_file.rows)

\* a file that grew at both ends: a trailing repair after the clock moved on,
\* then a leading repair for a longer analysis
C14_Witness ==
    /\ last.called /\ last.ok
    /\ HadLeadingGap
    /\ YearMax(cache_file.rows) = FirstClockYear
    /\ YearMin(cache_file.rows) < BeforeMin
    /\ last.fetches = << <<YearMin(cache_file.rows), BeforeMin - 1>> >>

\* the rows of the cache file that lie in the window of the last call
InWindow ==
    SelectSeq(cache_file.rows, LAMBDA r : LastStart <= r.year /\ r.year <= LastEnd)

EarliestInWindow == YearMin(InWindow)

MonthsOfEarliest ==
    {InWindow[i].month : i \in {j \in DOMAIN InWindow :
                                    InWindow[j].year = EarliestInWindow}}

\* ret is the window w without the rows of its earliest year y0 when that
\* year has fewer than 12 distinct months, and the whole window otherwise
IsWindowResult(ret, w, y0, months) ==
    /\ IsChronological(ret)
    /\ \A j \in DOMAIN ret : \E i \in DOMAIN w : ret[j] = w[i]
    /\ \A i \in DOMAIN w :
           (\E j \in DOMAIN ret : ret[j] = w[i])
               <=> (w[i].year # y0 \/ Cardinality(months) = MonthsPerYear)

\* C15: a successful spot_get_price call returns the rows of the cache file
\* of the years start_year..end_year in their order, without the rows of the
\* earliest of these years when that year has fewer than 12 distinct months;
\* the rows of every other year of the window are all returned.
C15_SliceWithoutPartialFirstYear ==
    (last.called /\ last.ok) =>
        \E w \in {InWindow} :
            /\ w # <<>>
            /\ \E y0 \in {YearMin(w)} :
                   \E months \in {{w[i].month : i \in {j \in DOMAIN w : w[j].year = y0}}} :
                       IsWindowResult(last.ret, w, y0, months)

\* the window begins with the first year of the service, which has the
\* months 7..12 only: the series starts with the year after it
C15_Witness ==
    /\ last.called /\ last.ok
    /\ EarliestInWindow = ServiceFirstYear
    /\ Cardinality(MonthsOfEarliest) = MonthsPerYear - ServiceFirstMonth + 1
    /\ last.ret # <<>>
    /\ last.ret[1].year = ServiceFirstYear + 1
    /\ YearsOf(last.ret) = (ServiceFirstYear + 1)..LastEnd


(***************************************************************************)
(* The summaries, and the pipeline with the price retrievals it makes      *)
(***************************************************************************)
UpperLetters == "ABCDEFGHIJKLMNOPQRSTUVWXYZ"
LowerLetters == "abcdefghijklmnopqrstuvwxyz"

CharAt(s, i) == SubSeq(s, i, i)

\* the lower-case letter of each upper-case letter
LowerOf ==
    [c \in {CharAt(UpperLetters, i) : i \in 1..Len(UpperLetters)} |->
        CharAt(LowerLetters,
               CHOOSE i \in 1..Len(UpperLetters) : CharAt(UpperLetters, i) = c)]

LowerChar(c) == IF c \in DOMAIN LowerOf THEN LowerOf[c] ELSE c

RECURSIVE lower(_)
\* str.lower()
lower(s) ==
    IF Len(s) = 0 THEN ""
    ELSE LowerChar(CharAt(s, 1)) \o lower(SubSeq(s, 2, Len(s)))

\* w in s
Contains(s, w) ==
    \E i \in 1..(Len(s) - Len(w) + 1) : SubSeq(s, i, i + Len(w) - 1) = w

RECURSIVE replace(_, _, _)
\* s.replace(old, new)
replace(s, old, new) ==
    IF Len(s) < Len(old) THEN s
    ELSE IF SubSeq(s, 1, Len(old)) = old
    THEN new \o replace(SubSeq(s, Len(old) + 1, Len(s)), old, new)
    ELSE CharAt(s, 1) \o replace(SubSeq(s, 2, Len(s)), old, new)

\* a value rounded to 0 decimals, ties to the even integer (Series.round(0))
Round0(a) ==
    LET fl == a.n \div a.d
        twice == 2 * (a.n - fl * a.d)
    IN  IF twice < a.d THEN RInt(fl)
        ELSE IF twice > a.d THEN RInt(fl + 1)
        ELSE IF fl % 2 = 0 THEN RInt(fl)
        ELSE RInt(fl + 1)

RECURSIVE SeriesSum(_)
\* Series.sum()
SeriesSum(series) ==
    IF series = <<>> THEN RZero ELSE RAdd(Head(series), SeriesSum(Tail(series)))

\* [col for col in dataframe.columns if word in col.lower()]
ColumnsWith(dataframe, word) ==
    SelectSeq(dataframe.cols, LAMBDA col : Contains(lower(col), word))

\* dataframe[value_columns].sum().round(0)
ValueTotals(dataframe, value_columns) ==
    [kind |-> "Series", index |-> value_columns,
     values |-> [i \in DOMAIN value_columns |->
                    Round0(SeriesSum(dataframe.data[value_columns[i]]))]]

\* sma_value_sum: [totals, dataframe, profile_df, apartments_df]
sma_value_sum(price) ==
    CHOOSE r \in
        {[totals |-> ValueTotals(p.dataframe, ColumnsWith(p.dataframe, "value")),
          dataframe |-> p.dataframe, profile_df |-> p.profile_df,
          apartments_df |-> p.apartments_df] :
             p \in {calculate_pv_over_production(price)}} : TRUE

\* the pd.DataFrame() of a summary's exception handler
EmptyResult == [kind |-> "DataFrame", index |-> <<>>, values |-> <<>>]

\* (dataframe[before] - dataframe[after]).sum()
Savings(dataframe, before, after) ==
    SeriesSum([i \in 1..NRows(dataframe) |->
                  RSub(dataframe.data[before][i], dataframe.data[after][i])])

\* the body of energy_value_sum on the frame of calculate_pv_over_production
CoveredTotals(dataframe, before_columns, after_columns) ==
    IF Len(before_columns) # Len(after_columns) THEN EmptyResult
    ELSE [kind |-> "Series",
          index |-> [i \in DOMAIN before_columns |->
                        replace(before_columns[i], "consumption",
                                "consumption covered")],
          values |-> [i \in DOMAIN before_columns |->
                         Savings(dataframe, before_columns[i], after_columns[i])]]

\* energy_value_sum: [totals, dataframe, profile_df, apartments_df]
energy_value_sum(price) ==
    CHOOSE r \in
        {[totals |-> CoveredTotals(p.dataframe,
                                   ColumnsWith(p.dataframe, "consumption"),
                                   ColumnsWith(p.dataframe, "after")),
          dataframe |-> p.dataframe, profile_df |-> p.profile_df,
          apartments_df |-> p.apartments_df] :
             p \in {calculate_pv_over_production(price)}} : TRUE

\* the methods that run add_apartment_consumption
FromApartments ==
    {"add_apartment_consumption", "calculate_apartment",
     "calculate_pv_over_production", "sma_value_sum", "energy_value_sum"}

\* the number of times one call of a method reaches spot_get_price: in
\* "by_type" mode add_apartment_consumption calls calculate_company twice
\* and works on the frame of the second call
RetrievalCount(method) ==
    IF method \in FromApartments /\ calculation_method = "by_type"
    THEN 2 ELSE 1

RECURSIVE Retrieve(_, _)
\* the spot_get_price calls of one method call, one after the other;
\* answers[i] tells whether the service answers a request of call i
Retrieve(file, answers) ==
    IF answers = <<>> THEN <<>>
    ELSE CHOOSE made \in
             {<<[before |-> file, file |-> r.file, ret |-> r.ret, ok |-> r.ok,
                 fetches |-> r.fetches]>> \o Retrieve(r.file, Tail(answers)) :
                  r \in {spot_get_price(file, clock, analysis_length,
                                        Head(answers))}} : TRUE

\* what a method leaves behind: [totals, dataframe, profile_df, apartments_df]
Stage(dataframe) ==
    [totals |-> NoTotals, dataframe |-> dataframe, profile_df |-> profile_df,
     apartments_df |-> apartments_df]

Units(r) ==
    [totals |-> NoTotals, dataframe |-> r.dataframe,
     profile_df |-> r.profile_df, apartments_df |-> r.apartments_df]

Returned(method, price) ==
    CASE method = "add_production" -> Stage(add_production(price))
      [] method = "add_company_consumption" ->
             Stage(add_company_consumption(price))
      [] method = "calculate_company" -> Stage(calculate_company(price))
      [] method = "add_apartment_consumption" ->
             Units(add_apartment_consumption(price))
      [] method = "calculate_apartment" -> Units(calculate_apartment(price))
      [] method = "calculate_pv_over_production" ->
             Units(calculate_pv_over_production(price))
      [] method = "sma_value_sum" -> sma_value_sum(price)
      [] method = "energy_value_sum" -> energy_value_sum(price)

\* unit specs whose identifiers hold one of the words the summaries look for
OddNames == <<"After", "Consumption">>
NamesAt(k) ==
    {TypeNames[k]} \cup (IF k \in DOMAIN OddNames THEN {OddNames[k]} ELSE {})
PipelineSpecAt(k) ==
    { [apartment |-> name, allocation |-> R(1, 5), profile |-> UnitFiles[k],
       amount |-> n] : name \in NamesAt(k), n \in {1, MaxAmount} }
PipelineDicts ==
    { d \in [1..MaxSpecs -> UNION {PipelineSpecAt(k) : k \in 1..MaxSpecs}] :
          \A k \in 1..MaxSpecs : d[k] \in PipelineSpecAt(k) }

\* EnergyAllocator.__init__ with the inputs of one run and no price cache
InitPipeline ==
    /\ IdleCache
    /\ production_path = <<RInt(10), RInt(2)>>
    /\ company_path = <<RInt(4), RInt(4)>>
    /\ price_profile = PriceFrame(<<R(15, 10), R(5, 1000)>>,
                                  <<R(75, 40), R(25, 4000)>>)
    /\ app_data_dict \in PipelineDicts
    /\ calculation_method \in {"by_apartment", "by_type"}
    /\ apartments_df = <<>>
    /\ profile_df = EmptyFrame
    /\ frame = EmptyFrame
    /\ stage = "none"
    /\ totals = NoTotals
    /\ retrievals = <<>>
    /\ IdleParse
    /\ IdleMedian
    /\ IdleAux

\* one call of a pipeline method, the price service answering or failing
\* each request on its own
Call(method) ==
    \E answers \in [1..RetrievalCount(method) -> BOOLEAN] :
        \E made \in {Retrieve(cache_file, answers)} :
            \E r \in {Returned(method, made[Len(made)])} :
                /\ cache_file' = made[Len(made)].file
                /\ retrievals' = made
                /\ frame' = r.dataframe
                /\ profile_df' = r.profile_df
                /\ apartments_df' = r.apartments_df
                /\ totals' = r.totals
                /\ stage' = method
                /\ UNCHANGED <<clock, config_length, analysis_length, last,
                               allocInputs, parseVars, medianVars, auxVars>>

CallAddProduction == Call("add_production")
CallAddCompanyConsumption == Call("add_company_consumption")
CallCalculateCompany == Call("calculate_company")
CallAddApartmentConsumption == Call("add_apartment_consumption")
CallCalculateApartment == Call("calculate_apartment")
CallCalculatePvOverProduction == Call("calculate_pv_over_production")
CallSmaValueSum == Call("sma_value_sum")
CallEnergyValueSum == Call("energy_value_sum")

\* the system clock passes into the next calendar year
PipelineNewYear ==
    /\ clock < FirstClockYear + MaxClockSteps
    /\ clock' = clock + 1
    /\ UNCHANGED <<cache_file, config_length, analysis_length, last, allocVars,
                   parseVars, medianVars, auxVars>>

NextPipeline ==
    \/ CallAddProduction
    \/ CallAddCompanyConsumption
    \/ CallCalculateCompany
    \/ CallAddApartmentConsumption
    \/ CallCalculateApartment
    \/ CallCalculatePvOverProduction
    \/ CallSmaValueSum
    \/ CallEnergyValueSum
    \/ PipelineNewYear

SpecPipeline == InitPipeline /\ [][NextPipeline]_vars


(***************************************************************************)
(* Claims about failures in the pipeline (checked under SpecPipeline)      *)
(***************************************************************************)
\* a spot_get_price call whose request to the price service failed
FailedRequest(q) == q.fetches # <<>> /\ ~q.ok

\* the call returned no price series and left the cache file as it was
NoSeriesReturned(q) == q.ret = DataFrameClass /\ q.file = q.before

IsSummary == stage \in {"sma_value_sum", "energy_value_sum"}

\* the retrieval whose result the most recent call worked on
UsedRetrieval == retrievals[Len(retrievals)]

C17_FailureEmptiesLaterStages ==
    stage # "none" /\ ~UsedRetrieval.ok =>
        IsEmpty(frame) /\ totals.index = <<>>

\* the stages other than add_apartment_consumption do return an empty frame
C17_OtherStagesEmpty ==
    /\ stage # "none"
    /\ stage # "add_apartment_consumption"
    /\ ~UsedRetrieval.ok
    => IsEmpty(frame) /\ totals.index = <<>>

\* the consumption column and the "after" column of each entity: the
\* company, then the units
EntityPairs ==
    <<[before |-> company_column, after |-> company_after_pv]>> \o
    [i \in DOMAIN apartments_df |->
        [before |-> ApartmentConsumption(apartments_df[i].apartment),
         after |-> AppAfterPvName(apartments_df[i].apartment)]]

\* C18 as stated: energy_value_sum fails without totals when the numbers of
\* "consumption" and "after" columns differ, and otherwise returns one total
\* per entity, the sum over the rows of its consumption less its "after"
\* column
C18_PairedPerEntity ==
    stage = "energy_value_sum" /\ ~IsEmpty(frame) =>
        IF Len(ColumnsWith(frame, "consumption")) # Len(ColumnsWith(frame, "after"))
        THEN totals = EmptyResult
        ELSE /\ totals.kind = "Series"
             /\ Len(totals.values) = Len(EntityPairs)
             /\ \A i \in DOMAIN EntityPairs :
                    REq(totals.values[i],
                        Savings(frame, EntityPairs[i].before,
                                EntityPairs[i].after))

\* no unit identifier holds one of the words energy_value_sum looks for
OrdinaryNames ==
    \A i \in DOMAIN app_data_dict :
        /\ ~Contains(lower(app_data_dict[i].apartment), "consumption")
        /\ ~Contains(lower(app_data_dict[i].apartment), "after")

\* with such identifiers the totals are those of the entities
C18_OrdinaryNamesPaired == OrdinaryNames => C18_PairedPerEntity

\* a unit identifier holding "after" makes the column counts differ
C18_MismatchReached ==
    /\ stage = "energy_value_sum"
    /\ ~IsEmpty(frame)
    /\ totals = EmptyResult


(***************************************************************************)
(* The fee column of the median table (checked under SpecMedian)           *)
(***************************************************************************)
\* 1 + VAT_fraction + transfer_fee_fraction
FeeFactor == RAdd(RAdd(RInt(1), vat_perc), transfer_fee_perc)

\* the prices of row i of the median table, one per year that has the key
YearPrices(i) == SelectSeq(median_df.data[i], LAMBDA c : c # NaNValue)

\* C19: in every row of the median table 'Spot median w/ fees' is that row's
\* 'Spot median' times (1 + VAT_fraction + transfer_fee_fraction), whatever
\* the number of years, although the second median is taken over a frame
\* that already holds the 'Spot median' column
C19_FeesAreMedianTimesFactor ==
    (median_df.called /\ median_df.ok) =>
        /\ Len(median_df.median_fees) = Len(median_df.index)
        /\ \A i \in DOMAIN median_df.index :
               /\ median_df.median[i] # NaNValue
               /\ REq(median_df.median_fees[i],
                      RMul(median_df.median[i], FeeFactor))

\* a table of an even and a table of an odd number of years: a row with a
\* price in every year, a median other than zero, and a leap-day row that
\* lacks some years
FeeRowsOfYears(count) ==
    /\ median_df.called /\ median_df.ok
    /\ Len(median_df.years) = count
    /\ \E i \in DOMAIN median_df.index :
           /\ Len(YearPrices(i)) = count
           /\ median_df.median[i] # RZero
           /\ median_df.median_fees[i] # median_df.median[i]
    /\ \E i \in DOMAIN median_df.index :
           /\ median_df.index[i] = Feb29
           /\ Len(YearPrices(i)) < count

C19_Witness == FeeRowsOfYears(8)

C19_WitnessOdd == FeeRowsOfYears(5)


(***************************************************************************)
(* The place of the unit columns (checked under SpecAlloc)                 *)
(***************************************************************************)
\* the positions at which the frame holds a column of that name
PlacesOf(name) == {i \in DOMAIN frame.cols : frame.cols[i] = name}

\* the three columns of the unit stand next to each other in this order
UnitColumnsTogether(apartment) ==
    \E i \in PlacesOf(ApartmentConsumption(apartment)) :
        /\ i + 2 <= Len(frame.cols)
        /\ frame.cols[i + 1] = AppAfterPvName(apartment)
        /\ frame.cols[i + 2] = ValueOfCoverageName(apartment)
        /\ PlacesOf(ApartmentConsumption(apartment)) = {i}
        /\ PlacesOf(AppAfterPvName(apartment)) = {i + 1}
        /\ PlacesOf(ValueOfCoverageName(apartment)) = {i + 2}

\* C20: in the frame returned by calculate_apartment every unit's 'after PV'
\* column stands immediately after its consumption column and its 'value of
\* coverage' column immediately after that, in both allocation modes: the
\* frame ends with the units' column triples in the order of the units,
\* nothing stands between or behind them
C20_UnitColumnsAdjacent ==
    stage = "calculate_apartment" =>
        /\ \A k \in DOMAIN apartments_df :
               UnitColumnsTogether(apartments_df[k].apartment)
        /\ \A k \in DOMAIN apartments_df :
               frame.cols[Len(frame.cols) - 3 * (Len(apartments_df) - k) - 2]
                   = ApartmentConsumption(apartments_df[k].apartment)

\* a by_type run of three or more units: the first unit's derived columns
\* stand before the second unit's consumption column
C20_Witness ==
    /\ stage = "calculate_apartment"
    /\ calculation_method = "by_type"
    /\ Len(apartments_df) >= 3
    /\ \E i \in PlacesOf(ValueOfCoverageName(apartments_df[1].apartment)) :
           /\ i + 1 <= Len(frame.cols)
           /\ frame.cols[i + 1] = ApartmentConsumption(apartments_df[2].apartment)

\* a by_apartment run of two units
C20_WitnessByApartment ==
    /\ stage = "calculate_apartment"
    /\ calculation_method = "by_apartment"
    /\ Len(apartments_df) = 2
    /\ UnitColumnsTogether(apartments_df[1].apartment)


(***************************************************************************)
(* Convergence of the cache repair (checked under SpecCache)               *)
(***************************************************************************)
\* the file holds rows of every year of the window start_year..end_year
CoversWindow(file, now, length) ==
    /\ file.exists
    /\ \A y \in StartYear(now, length)..EndYear(now) : y \in YearsOf(file.rows)

\* the call before the most recent one and the most recent one both
\* succeeded, under the clock and the analysis length that still hold
TwoSuccessesBefore ==
    /\ last.called /\ last.ok /\ last.repeat
    /\ last.now = clock
    /\ last.len = analysis_length

\* C21: whatever the cache was (absent, leading gap, trailing gap or both),
\* the second of two consecutive successful spot_get_price calls with the
\* same clock and analysis length leaves the file covering every year of
\* [start_year, end_year], and every call after them under the same clock and
\* analysis length issues no fetch and leaves the file as it is
C21_TwoCallsThenNoFetch ==
    [][/\ (last'.called /\ last'.ok /\ last'.repeat) =>
              CoversWindow(cache_file', last'.now, last'.len)
       /\ (TwoSuccessesBefore /\ last' # last) =>
              /\ last'.fetches = <<>>
              /\ last'.ok
              /\ cache_file' = cache_file]_vars

\* the file missed a leading and a trailing range, the first call fetched the
\* trailing one and the second call the leading one
C21_Witness ==
    /\ last.called /\ last.ok /\ last.repeat
    /\ HadLeadingGap
    /\ last.fetches # <<>>
    /\ CoversWindow(cache_file, last.now, last.len)


(***************************************************************************)
(* The cache file after a failed request (checked under SpecCache)         *)
(***************************************************************************)
\* the most recent spot_get_price call sent a request that failed
LastRequestFailed == last.called /\ last.fetches # <<>> /\ ~last.ok

\* C22: when the request of a spot_get_price call fails, the cache file is
\* after the call exactly what it was before it: the same rows in the same
\* order, and no file where there was none
C22_FailureLeavesFile ==
    LastRequestFailed =>
        /\ cache_file.exists = last.before.exists
        /\ Len(cache_file.rows) = Len(last.before.rows)
        /\ \A i \in DOMAIN cache_file.rows :
               cache_file.rows[i] = last.before.rows[i]

\* the request for a trailing range fails with rows on file
C22_Witness ==
    /\ LastRequestFailed
    /\ HadTrailingGap
    /\ last.before.rows # <<>>
    /\ cache_file.rows = last.before.rows

\* the request for a leading range fails with rows on file
C22_WitnessLeading ==
    /\ LastRequestFailed
    /\ HadLeadingGap /\ ~HadTrailingGap
    /\ cache_file.rows = last.before.rows

\* the request for the whole window fails without a file
C22_WitnessNoFile ==
    /\ LastRequestFailed
    /\ ~last.before.exists
    /\ ~cache_file.exists


(***************************************************************************)
(* The energy balance of a row (checked under SpecAlloc)                   *)
(***************************************************************************)
RECURSIVE UnitsCovered(_, _)
\* the energy covered for the units k.. in row i: consumption less after PV
UnitsCovered(k, i) ==
    IF k > Len(apartments_df) THEN RZero
    ELSE RAdd(RSub(frame.data[ApartmentConsumption(apartments_df[k].apartment)][i],
                   frame.data[AppAfterPvName(apartments_df[k].apartment)][i]),
              UnitsCovered(k + 1, i))

RECURSIVE WeightSum(_)
\* the sum of the allocation weights of the units k..
WeightSum(k) ==
    IF k > Len(apartments_df) THEN RZero
    ELSE RAdd(apartments_df[k].allocation, WeightSum(k + 1))

\* the energy covered for the company in row i
CompanyCovered(i) ==
    RSub(frame.data[company_column][i], frame.data[company_after_pv][i])

\* production, consumptions and weights are not negative and the weights
\* sum to at most 1
BalanceInputs(i) ==
    /\ RLeq(RZero, production_path[i])
    /\ RLeq(RZero, company_path[i])
    /\ \A k \in DOMAIN apartments_df :
           /\ RLeq(RZero, apartments_df[k].profile[i])
           /\ RLeq(RZero, apartments_df[k].allocation)
    /\ RLeq(WeightSum(1), RInt(1))

\* C23 as stated: in every such row of the frame of
\* calculate_pv_over_production the energy covered for the company, the
\* energy covered for the units and the grid surplus together do not exceed
\* the production
C23_EnergyConserved ==
    stage = "calculate_pv_over_production" =>
        \A i \in RowIds :
            BalanceInputs(i) =>
                RLeq(RAdd(CompanyCovered(i),
                          RAdd(UnitsCovered(1, i),
                               frame.data[pv_over_production][i])),
                     frame.data[production_column][i])

\* without the grid surplus the covered energy stays within the production
C23_CoveredWithinProduction ==
    stage = "calculate_pv_over_production" =>
        \A i \in RowIds :
            BalanceInputs(i) =>
                RLeq(RAdd(CompanyCovered(i), UnitsCovered(1, i)),
                     frame.data[production_column][i])

====
